---- MODULE Spec2Model ----
(***************************************************************************)
(* A model of the influx command line client (cmd/influx/cli/cli.go):      *)
(* the prompt loop and the -execute / stdin batch paths of Run, the        *)
(* dispatch of ParseCommand, the cancellation relay of ExecuteQuery, and   *)
(* the identifier lexer and INSERT classifier.                             *)
(*                                                                         *)
(* Text is modelled as a sequence of one-character strings, so that the    *)
(* string functions of the code (ToLower, TrimSpace, Fields, FieldsFunc,   *)
(* TrimPrefix, HasPrefix) are computed character by character.             *)
(***************************************************************************)
EXTENDS Integers, Sequences, FiniteSets, TLC

(***************************************************************************)
(* Bounds of the model.                                                    *)
(***************************************************************************)
\* lines read from the prompt, or lines of an -execute script
MaxLines == 2
\* interrupt/termination signals delivered to the process
MaxSignals == 1
\* characters of a statement handed to the identifier lexer
MaxLexLen == 6
\* statements of a query handed to the scope rewriter
MaxStatements == 2
\* Results of a Response handed to the column renderer
MaxResults == 2
\* file events the configuration watcher of influxd delivers
MaxEvents == 1

(***************************************************************************)
(* Characters and the string functions of the Go library the code calls.   *)
(***************************************************************************)
LowerLetters ==
  <<"a","b","c","d","e","f","g","h","i","j","k","l","m",
    "n","o","p","q","r","s","t","u","v","w","x","y","z">>

UpperLetters ==
  <<"A","B","C","D","E","F","G","H","I","J","K","L","M",
    "N","O","P","Q","R","S","T","U","V","W","X","Y","Z">>

Digits == {"0","1","2","3","4","5","6","7","8","9"}

Range(f) == {f[i] : i \in DOMAIN f}

\* strings.ToLower on one character
LowerCh(ch) ==
  IF \E i \in 1..26 : UpperLetters[i] = ch
    THEN LowerLetters[CHOOSE i \in 1..26 : UpperLetters[i] = ch]
    ELSE ch

ToLower(s) == [i \in 1..Len(s) |-> LowerCh(s[i])]

\* unicode.IsSpace, as used by strings.TrimSpace and strings.Fields
IsSpace(ch) == ch \in {" ", "\t", "\n", "\r"}

DropWhileSpace(s) ==
  LET idx == {i \in 1..Len(s) : ~IsSpace(s[i])}
  IN  IF idx = {} THEN <<>>
      ELSE SubSeq(s, CHOOSE i \in idx : \A j \in idx : i <= j, Len(s))

DropTrailingSpace(s) ==
  LET idx == {i \in 1..Len(s) : ~IsSpace(s[i])}
  IN  IF idx = {} THEN <<>>
      ELSE SubSeq(s, 1, CHOOSE i \in idx : \A j \in idx : j <= i)

TrimSpace(s) == DropTrailingSpace(DropWhileSpace(s))

HasPrefix(s, p) == Len(p) <= Len(s) /\ SubSeq(s, 1, Len(p)) = p

TrimPrefix(s, p) == IF HasPrefix(s, p) THEN SubSeq(s, Len(p) + 1, Len(s)) ELSE s

EqualFold(a, b) == ToLower(a) = ToLower(b)

TrimSuffix(s, p) ==
  IF Len(p) <= Len(s) /\ SubSeq(s, Len(s) - Len(p) + 1, Len(s)) = p
    THEN SubSeq(s, 1, Len(s) - Len(p))
    ELSE s

\* strings.Replace(s, old, "", -1) for a non-empty old
RECURSIVE RemoveAll(_, _)
RemoveAll(s, old) ==
  IF s = <<>> THEN <<>>
  ELSE IF HasPrefix(s, old) THEN RemoveAll(SubSeq(s, Len(old) + 1, Len(s)), old)
  ELSE <<s[1]>> \o RemoveAll(Tail(s), old)

\* the number of characters of s before the first ch (Len(s) when there is none)
RECURSIVE Before(_, _)
Before(s, ch) == IF s = <<>> \/ s[1] = ch THEN 0 ELSE 1 + Before(Tail(s), ch)

\* strings.Split(s, sep) for a separator of one character
RECURSIVE Split(_, _)
Split(s, sep) ==
  LET n == Before(s, sep)
  IN  IF n = Len(s) THEN <<s>>
      ELSE <<SubSeq(s, 1, n)>> \o Split(SubSeq(s, n + 2, Len(s)), sep)

\* strings.Join(parts, sep)
RECURSIVE Join(_, _)
Join(parts, sep) ==
  IF parts = <<>> THEN <<>>
  ELSE IF Len(parts) = 1 THEN parts[1]
  ELSE parts[1] \o sep \o Join(Tail(parts), sep)

\* strings.SplitAfterN(s, " ", 2)
SplitAfterSpace2(s) ==
  LET n == Before(s, " ")
  IN  IF n = Len(s) THEN <<s>>
      ELSE <<SubSeq(s, 1, n + 1), SubSeq(s, n + 2, Len(s))>>

\* the number of leading space characters of s, and of leading non-space ones
RECURSIVE SpaceRun(_)
SpaceRun(s) == IF s # <<>> /\ IsSpace(s[1]) THEN 1 + SpaceRun(Tail(s)) ELSE 0

RECURSIVE WordRun(_)
WordRun(s) == IF s # <<>> /\ ~IsSpace(s[1]) THEN 1 + WordRun(Tail(s)) ELSE 0

\* strings.Fields: the maximal runs of non-space characters, in order
RECURSIVE Fields(_)
Fields(s) ==
  LET t == SubSeq(s, SpaceRun(s) + 1, Len(s))
      n == WordRun(t)
  IN  IF t = <<>> THEN <<>>
      ELSE <<SubSeq(t, 1, n)>> \o Fields(SubSeq(t, n + 1, Len(t)))

(***************************************************************************)
(* The identifier lexer (cli.go 649-702).                                  *)
(***************************************************************************)
isWhitespace(ch) == ch \in {" ", "\t", "\n"}

isLetter(ch) == ch \in Range(LowerLetters) \/ ch \in Range(UpperLetters)

isDigit(ch) == ch \in Digits

isIdentFirstChar(ch) == isLetter(ch) \/ ch = "_"

isNotIdentChar(ch) == ~(isLetter(ch) \/ isDigit(ch) \/ ch = "_")

\* strings.FieldsFunc(stmt, isNotIdentChar)[0] when there is a field: the
\* first maximal run of identifier characters; <<>> when there is none
RECURSIVE IdentRun(_)
IdentRun(s) ==
  IF s # <<>> /\ ~isNotIdentChar(s[1]) THEN <<s[1]>> \o IdentRun(Tail(s)) ELSE <<>>

RECURSIVE FirstIdentField(_)
FirstIdentField(s) ==
  IF s = <<>> THEN <<>>
  ELSE IF isNotIdentChar(s[1]) THEN FirstIdentField(Tail(s))
  ELSE IdentRun(s)

parseUnquotedIdentifier(stmt) ==
  LET f == FirstIdentField(stmt)
  IN  IF f # <<>> THEN [ident |-> f, rest |-> TrimPrefix(stmt, f)]
      ELSE [ident |-> <<>>, rest |-> stmt]

\* strings.FieldsFunc(stmt, f)[0] for the closure of parseDoubleQuotedIdentifier:
\* FieldsFunc calls f once on each character, left to right; f carries
\* escapeNext from one call to the next.  A character is a separator when it
\* is a double quote seen with escapeNext false.  started says that a field
\* has begun.
RECURSIVE QuotedField(_, _, _)
QuotedField(s, escapeNext, started) ==
  IF s = <<>> THEN <<>>
  ELSE LET ch  == s[1]
           sep == ch = "\"" /\ ~escapeNext
           esc == IF ch = "\\" THEN TRUE
                  ELSE IF ch = "\"" THEN FALSE
                  ELSE escapeNext
       IN  IF sep
             THEN IF started THEN <<>> ELSE QuotedField(Tail(s), esc, FALSE)
             ELSE <<ch>> \o QuotedField(Tail(s), esc, TRUE)

parseDoubleQuotedIdentifier(stmt) ==
  LET f == QuotedField(stmt, FALSE, FALSE)
  IN  IF f # <<>>
        THEN [ident |-> f, rest |-> TrimPrefix(stmt, <<"\"">> \o f \o <<"\"">>)]
        ELSE [ident |-> <<>>, rest |-> stmt]

\* parseNextIdentifier without the test for the first character of an
\* unquoted identifier
RECURSIVE parseNextIdentifier_NoFirstCharTest(_)
parseNextIdentifier_NoFirstCharTest(stmt) ==
  IF Len(stmt) > 0
    THEN IF isWhitespace(stmt[1]) THEN parseNextIdentifier_NoFirstCharTest(Tail(stmt))
         ELSE IF stmt[1] = "\"" THEN parseDoubleQuotedIdentifier(stmt)
         ELSE parseUnquotedIdentifier(stmt)
    ELSE [ident |-> <<>>, rest |-> stmt]

RECURSIVE parseNextIdentifier(_)
parseNextIdentifier(stmt) ==
  IF Len(stmt) > 0
    THEN IF isWhitespace(stmt[1]) THEN parseNextIdentifier(Tail(stmt))
         ELSE IF isIdentFirstChar(stmt[1]) THEN parseUnquotedIdentifier(stmt)
         ELSE IF stmt[1] = "\"" THEN parseDoubleQuotedIdentifier(stmt)
         ELSE [ident |-> <<>>, rest |-> stmt]
    ELSE [ident |-> <<>>, rest |-> stmt]

(***************************************************************************)
(* The INSERT classifier (cli.go 704-745).  c is the CommandLine's record  *)
(* of session fields.                                                      *)
(***************************************************************************)
BatchPoints(db, rp, raw, c) ==
  [Database |-> db, RetentionPolicy |-> rp, Raw |-> raw,
   Precision |-> c.Precision, WriteConsistency |-> c.WriteConsistency]

\* parseInto with the space after the identifier left in the point text
parseInto_KeepsSpace(stmt, c) ==
  LET p1    == parseNextIdentifier(stmt)
      dot   == HasPrefix(p1.rest, <<".">>)
      db    == IF dot THEN p1.ident ELSE c.Database
      p2    == IF dot THEN parseNextIdentifier(Tail(p1.rest)) ELSE p1
      sp    == HasPrefix(p2.rest, <<" ">>)
      rp    == IF sp THEN p2.ident ELSE c.RetentionPolicy
  IN  BatchPoints(db, rp, p2.rest, c)

\* parseInto taking a lone identifier for the database
parseInto_LoneIsDatabase(stmt, c) ==
  LET p1    == parseNextIdentifier(stmt)
      dot   == HasPrefix(p1.rest, <<".">>)
      p2    == IF dot THEN parseNextIdentifier(Tail(p1.rest)) ELSE p1
      sp    == HasPrefix(p2.rest, <<" ">>)
      db    == IF dot \/ sp THEN p1.ident ELSE c.Database
      rp    == IF dot /\ sp THEN p2.ident ELSE c.RetentionPolicy
      raw   == IF sp THEN Tail(p2.rest) ELSE p2.rest
  IN  BatchPoints(db, rp, raw, c)

parseInto(stmt, c) ==
  LET p1    == parseNextIdentifier(stmt)
      dot   == HasPrefix(p1.rest, <<".">>)
      db    == IF dot THEN p1.ident ELSE c.Database
      p2    == IF dot THEN parseNextIdentifier(Tail(p1.rest)) ELSE p1
      sp    == HasPrefix(p2.rest, <<" ">>)
      rp    == IF sp THEN p2.ident ELSE c.RetentionPolicy
      raw   == IF sp THEN Tail(p2.rest) ELSE p2.rest
  IN  BatchPoints(db, rp, raw, c)

W_insert == <<"i","n","s","e","r","t">>
W_into == <<"i","n","t","o">>

\* the error of parseInsert: "found <found>, expected INSERT"
SyntaxError(found) == [ok |-> FALSE, found |-> found, expected |-> "INSERT"]

\* parseInsert accepting any first identifier that begins with "insert"
parseInsert_PrefixMatch(stmt, c) ==
  LET p1 == parseNextIdentifier(stmt)
      p2 == parseNextIdentifier(p1.rest)
  IN  IF ~HasPrefix(ToLower(p1.ident), W_insert)
        THEN SyntaxError(p1.ident)
      ELSE IF EqualFold(p2.ident, W_into)
        THEN [ok |-> TRUE, bp |-> parseInto(p2.rest, c)]
      ELSE [ok |-> TRUE, bp |-> BatchPoints(c.Database, c.RetentionPolicy, p1.rest, c)]

parseInsert(stmt, c) ==
  LET p1 == parseNextIdentifier(stmt)
      p2 == parseNextIdentifier(p1.rest)
  IN  IF ~EqualFold(p1.ident, W_insert)
        THEN SyntaxError(p1.ident)
      ELSE IF EqualFold(p2.ident, W_into)
        THEN [ok |-> TRUE, bp |-> parseInto(p2.rest, c)]
      ELSE [ok |-> TRUE, bp |-> BatchPoints(c.Database, c.RetentionPolicy, p1.rest, c)]

(***************************************************************************)
(* State.                                                                  *)
(***************************************************************************)
VARIABLES
  \* the CommandLine's session fields (cli.go 40-69)
  session,
  \* how Run was started: "interactive" (a TTY), "execute" (-execute) or
  \* "batch" (stdin is not a TTY); c.IgnoreSignals; whether historyFilePath is set
  mode, ignoreSignals, hasHistoryFile,
  \* the process: "running", "killed" (an unhandled signal) or "panicked"
  proc,
  \* the position of the main goroutine, and what Run returned
  pc, runResult,
  \* the line being dispatched, how many lines were read, the handler
  \* ParseCommand chose for it and what ParseCommand returned
  line, lineNo, handler, parseErr,
  \* the ExecuteQuery calls made for the line (their count and the query
  \* text of the last), and the network calls made for the line
  eqCalls, eqArg, netCalls,
  \* the number of ExecuteQuery calls that created a context so far; the
  \* current call is number qn
  qn,
  \* per ExecuteQuery call: its relay goroutine, whether its done channel is
  \* closed, whether its context is cancelled, the signal its relay received
  relay, done, ctxCancelled, got,
  \* c.osSignals (capacity 1), whether signal.Notify feeds it, and the
  \* number of signals delivered so far
  osSignals, notified, sigCount,
  \* the error QueryContext returned, the error ExecuteQuery printed
  \* and the value it returns
  qerr, eqReport, eqResult,
  \* the liner's history, the content of the history file, whether c.Quit
  \* is closed, and the batch of points the line handed to Client.Write
  history, historyFile, quitClosed, lastWrite,
  \* the statement handed to parseInsert or to parseNextIdentifier, the input
  \* it was drawn from, the position of the run and what the function returned
  stmt, input, ipc, parsed,
  \* the statements of the parsed query that ExecuteQuery rewrites in place
  pq,
  \* writeColumns: the index of the Result being written, previousHeaders, the
  \* lines held by the tabwriter and the lines that reached the output stream
  ri, previousHeaders, tw, out,
  \* the Command of "influxd run": its fields, the position of the goroutine
  \* that calls Run and Close, and its two background goroutines
  influxd

insertVars == <<stmt, input, ipc, parsed>>

ioVars == <<pq, ri, previousHeaders, tw, out, influxd>>

shellVars ==
  <<mode, ignoreSignals, hasHistoryFile, proc, pc, runResult, line, lineNo,
    handler, parseErr, eqCalls, eqArg, netCalls, qn, relay, done, ctxCancelled,
    got, osSignals, notified, sigCount, qerr, eqReport, eqResult, history,
    historyFile, quitClosed, lastWrite>>

vars == <<session, shellVars, insertVars, ioVars>>

\* the zero value of the session fields that New leaves unset (cli.go 72-79).
\* URL is the address the shell shows as its server, Client the address the
\* client in use was created for (<<>> for the nil client).
NewSession ==
  [Database |-> <<>>, RetentionPolicy |-> <<>>, Precision |-> <<>>,
   WriteConsistency |-> "", Username |-> <<>>, Password |-> <<>>,
   ClientAuth |-> <<>>, Pretty |-> FALSE, Chunked |-> TRUE, Format |-> <<>>,
   URL |-> <<>>, ServerVersion |-> "", Client |-> <<>>]

\* the address built from -host and -port (cli.go 120-126) and the versions a
\* server reports to Ping
HomeURL == <<"h","0">>
ServerVersions == { "v1", "v2" }

\* the session after a Connect call that succeeded (cli.go 369-378)
Connected(c, url, v) == [c EXCEPT !.Client = url, !.ServerVersion = v, !.URL = url]

(***************************************************************************)
(* The command dispatcher: ParseCommand's switch (cli.go 283-340).         *)
(***************************************************************************)
MetaCommands ==
  { [w |-> <<"e","x","i","t">>, h |-> "exit"],
    [w |-> <<"q","u","i","t">>, h |-> "quit"],
    [w |-> <<"g","o","p","h","e","r">>, h |-> "gopher"],
    [w |-> <<"c","o","n","n","e","c","t">>, h |-> "connect"],
    [w |-> <<"a","u","t","h">>, h |-> "auth"],
    [w |-> <<"h","e","l","p">>, h |-> "help"],
    [w |-> <<"h","i","s","t","o","r","y">>, h |-> "history"],
    [w |-> <<"f","o","r","m","a","t">>, h |-> "format"],
    [w |-> <<"p","r","e","c","i","s","i","o","n">>, h |-> "precision"],
    [w |-> <<"c","o","n","s","i","s","t","e","n","c","y">>, h |-> "consistency"],
    [w |-> <<"s","e","t","t","i","n","g","s">>, h |-> "settings"],
    [w |-> <<"c","h","u","n","k","e","d">>, h |-> "chunked"],
    [w |-> <<"c","h","u","n","k">>, h |-> "chunk"],
    [w |-> <<"p","r","e","t","t","y">>, h |-> "pretty"],
    [w |-> <<"u","s","e">>, h |-> "use"],
    [w |-> <<"n","o","d","e">>, h |-> "node"],
    [w |-> <<"i","n","s","e","r","t">>, h |-> "insert"],
    [w |-> <<"c","l","e","a","r">>, h |-> "clear"] }

\* the case of ParseCommand's switch that cmd selects: a meta-command,
\* "query" (the default case) or "blank" (no token)
Handler(cmd) ==
  LET lcmd   == TrimSpace(ToLower(cmd))
      tokens == Fields(lcmd)
  IN  IF Len(tokens) > 0
        THEN IF \E m \in MetaCommands : m.w = tokens[1]
               THEN (CHOOSE m \in MetaCommands : m.w = tokens[1]).h
               ELSE "query"
        ELSE "blank"

\* the lines typed at the prompt, written in a script or piped to stdin
LinePool ==
  { <<>>,
    <<" ">>,
    <<"e","x","i","t">>,
    <<"A","U","T","H"," ","u"," ","p">>,
    <<" ","a","u","t","h"," ","u"," ","p">>,
    <<"H","i","s","t","o","r","y">>,
    <<"p","r","e","t","t","y">>,
    <<"i","n","s","e","r","t"," ","c"," ","v","=","1">>,
    <<"S","E","L","E","C","T"," ","1">> }

W_auth == <<"a","u","t","h">>
W_exit == <<"e","x","i","t">>

\* what is typed at the username and password prompts of SetAuth
PromptedNames == { <<"u">> }

\* the messages of the transport errors QueryContext returns
TransportMessages == { "", "timeout" }

\* the lines read are numbered from 1; the line that an end of input stands
\* for may follow MaxLines typed lines
LineIds == 1..(MaxLines + 1)

NoSignal == [q |-> 0, at |-> "none"]

\* where the main goroutine is when a signal is delivered: inside a
\* QueryContext call, between two ExecuteQuery calls (or before the first), or
\* inside ExecuteQuery but not inside QueryContext
SignalAt ==
  IF pc = "inflight" THEN "inflight"
  ELSE IF pc \in {"parsed", "select", "prompt", "script", "parse"} THEN "between"
  ELSE "other"

\* the capacity of c.osSignals
OsSignalsCap == 1

Running == proc = "running"

relayVars == <<qn, relay, done, ctxCancelled, got>>
sigVars == <<osSignals, notified, sigCount>>
cfgVars == <<mode, ignoreSignals, hasHistoryFile>>
histVars == <<history, historyFile>>
eqVars == <<qerr, eqReport, eqResult>>
lineVars == <<line, lineNo>>

\* the Row that writeColumns starts from: the zero value of models.Row
ZeroRow == [Name |-> "", Tags |-> <<>>, Columns |-> <<>>]

\* NewCommand (part_001 61-71): closing and Closed are open channels, no
\* watcher, no Server, no pidfile.  pc is the position of the goroutine that
\* calls Run and then Close; configPath and pidPath are the options parsed;
\* watching and monitor are the goroutines of ParseConfig and of
\* monitorServerErrors; pidFileOnDisk says that the PID file exists; events
\* counts the file events the watcher delivered; closeResult is what Close
\* returned, or "panic".
NewCommand ==
  [pc |-> "flags", configPath |-> "", pidPath |-> "",
   closing |-> FALSE, Closed |-> FALSE, pidfile |-> "",
   watcher |-> "nil", watching |-> "none",
   Server |-> "nil", monitor |-> "none",
   pidFileOnDisk |-> FALSE, events |-> 0, reloads |-> 0,
   runResult |-> "none", closeResult |-> "none"]

\* the values the rewriter's and the renderer's variables keep while they
\* do not run, and the Command while influxd is not modelled
IoIdle ==
  /\ pq = <<>>
  /\ ri = 0 /\ previousHeaders = ZeroRow
  /\ tw = <<>> /\ out = <<>>
  /\ influxd = NewCommand

\* the values the classifier's variables keep while the shell runs
InsertIdle ==
  /\ stmt = <<>>
  /\ input = [form |-> "none"]
  /\ ipc = "idle"
  /\ parsed = [ok |-> FALSE, found |-> <<>>]
  /\ IoIdle

\* the state in which Run reaches the -execute script, the stdin batch or
\* mainLoop (cli.go 154, 186, 250): connected, with signal.Notify called only
\* on the interactive path (cli.go 200-203)
Init ==
  /\ mode \in {"interactive", "execute", "batch"}
  /\ ignoreSignals \in BOOLEAN
  /\ hasHistoryFile \in (IF mode = "interactive" THEN BOOLEAN ELSE {FALSE})
  /\ \E rp \in {<<>>, <<"r","1">>} :
       session = [Connected(NewSession, HomeURL, "v1") EXCEPT !.RetentionPolicy = rp]
  /\ proc = "running"
  /\ pc = (IF mode = "interactive" THEN "select"
           ELSE IF mode = "execute" THEN "script" ELSE "batch")
  /\ runResult = "none"
  /\ line = <<>> /\ lineNo = 0 /\ handler = "none" /\ parseErr = "none"
  /\ eqCalls = 0 /\ eqArg = <<>> /\ netCalls = 0
  /\ qn = 0
  /\ relay = [q \in LineIds |-> "none"]
  /\ done = [q \in LineIds |-> FALSE]
  /\ ctxCancelled = [q \in LineIds |-> FALSE]
  /\ got = [q \in LineIds |-> NoSignal]
  /\ osSignals = <<>>
  /\ notified = (mode = "interactive" /\ ~ignoreSignals)
  /\ sigCount = 0
  /\ qerr = "none" /\ eqReport = "" /\ eqResult = "none"
  /\ history = <<>> /\ historyFile = <<>>
  /\ quitClosed = FALSE
  /\ lastWrite = [Raw |-> <<>>, sent |-> FALSE, failed |-> FALSE]
  /\ InsertIdle

(***************************************************************************)
(* Signals.  A SIGINT or SIGTERM reaches c.osSignals only once              *)
(* signal.Notify was called; the send does not block, so a signal is        *)
(* dropped when the channel is full.  Without Notify the Go runtime ends    *)
(* the process.  The signal is tagged with the position of the main         *)
(* goroutine (SignalAt) and the number of the last ExecuteQuery call.       *)
(***************************************************************************)
Signal ==
  /\ Running /\ pc # "returned"
  /\ sigCount < MaxSignals
  /\ sigCount' = sigCount + 1
  /\ IF notified
       THEN /\ osSignals' = (IF Len(osSignals) < OsSignalsCap
                               THEN Append(osSignals, [q |-> qn, at |-> SignalAt])
                               ELSE osSignals)
            /\ proc' = proc
       ELSE /\ proc' = "killed"
            /\ osSignals' = osSignals
  /\ UNCHANGED <<session, cfgVars, pc, runResult, lineVars, handler, parseErr,
                 eqCalls, eqArg, netCalls, relayVars, notified, eqVars,
                 histVars, quitClosed, lastWrite, insertVars, ioVars>>

(***************************************************************************)
(* mainLoop (cli.go 254-279), saveHistory and exit.                        *)
(***************************************************************************)
\* saveHistory (cli.go 1097-1107): the file becomes the liner's history h,
\* unless no path is set; os.Create is taken to succeed
SavedFile(h) == IF hasHistoryFile THEN h ELSE historyFile

\* exit(): saveHistory, then the liner is closed; Run returns r
ExitLoop(r) ==
  /\ historyFile' = SavedFile(history)
  /\ history' = history
  /\ runResult' = r
  /\ pc' = "returned"

LoopOnSignal ==
  /\ Running /\ pc = "select"
  /\ osSignals # <<>>
  /\ osSignals' = Tail(osSignals)
  /\ ExitLoop("nil")
  /\ UNCHANGED <<session, cfgVars, proc, lineVars, handler, parseErr, eqCalls,
                 eqArg, netCalls, relayVars, notified, sigCount, eqVars,
                 quitClosed, lastWrite, insertVars, ioVars>>

LoopOnQuit ==
  /\ Running /\ pc = "select"
  /\ quitClosed
  /\ ExitLoop("nil")
  /\ UNCHANGED <<session, cfgVars, proc, lineVars, handler, parseErr, eqCalls,
                 eqArg, netCalls, relayVars, sigVars, eqVars, quitClosed,
                 lastWrite, insertVars, ioVars>>

LoopDefault ==
  /\ Running /\ pc = "select"
  /\ osSignals = <<>> /\ ~quitClosed
  /\ pc' = "prompt"
  /\ UNCHANGED <<session, cfgVars, proc, runResult, lineVars, handler, parseErr,
                 eqCalls, eqArg, netCalls, relayVars, sigVars, eqVars, histVars,
                 quitClosed, lastWrite, insertVars, ioVars>>

\* a line l is read
StartLine(l) ==
  /\ line' = l
  /\ lineNo' = lineNo + 1
  /\ handler' = "none" /\ parseErr' = "none"
  /\ eqCalls' = 0 /\ netCalls' = 0

PromptLine ==
  /\ Running /\ pc = "prompt"
  /\ lineNo < MaxLines
  /\ \E l \in LinePool : StartLine(l)
  /\ eqArg' = <<>>
  /\ pc' = "parse"
  /\ UNCHANGED <<session, cfgVars, proc, runResult, relayVars, sigVars, eqVars,
                 histVars, quitClosed, lastWrite, insertVars, ioVars>>

\* io.EOF: the line becomes "exit"
PromptEOF ==
  /\ Running /\ pc = "prompt"
  /\ StartLine(W_exit)
  /\ eqArg' = <<>>
  /\ pc' = "parse"
  /\ UNCHANGED <<session, cfgVars, proc, runResult, relayVars, sigVars, eqVars,
                 histVars, quitClosed, lastWrite, insertVars, ioVars>>

PromptError ==
  /\ Running /\ pc = "prompt"
  /\ ExitLoop("error")
  /\ UNCHANGED <<session, cfgVars, proc, lineVars, handler, parseErr, eqCalls,
                 eqArg, netCalls, relayVars, sigVars, eqVars, quitClosed,
                 lastWrite, insertVars, ioVars>>

\* the line's local values (l, err, and what was observed of its dispatch) end
\* with the iteration
EndLine ==
  /\ line' = <<>>
  /\ handler' = "none" /\ parseErr' = "none"
  /\ eqCalls' = 0 /\ eqArg' = <<>> /\ netCalls' = 0
  /\ lastWrite' = [Raw |-> <<>>, sent |-> FALSE, failed |-> FALSE]

\* the history step without the test for ErrBlankCommand
LoopHistory_KeepsBlank ==
  /\ Running /\ pc = "parsed" /\ mode = "interactive"
  /\ IF ~HasPrefix(TrimSpace(line), W_auth)
       THEN /\ history' = Append(history, [n |-> lineNo, text |-> line])
            /\ historyFile' = SavedFile(history')
       ELSE UNCHANGED histVars
  /\ EndLine
  /\ pc' = "select"
  /\ UNCHANGED <<session, cfgVars, proc, runResult, lineNo, relayVars, sigVars,
                 eqVars, quitClosed, insertVars, ioVars>>

\* the history step of a loop that returns the error of ParseCommand
LoopHistory_ReturnsOnError ==
  /\ Running /\ pc = "parsed" /\ mode = "interactive"
  /\ IF parseErr = "error"
       THEN /\ ExitLoop(parseErr)
            /\ UNCHANGED <<line, handler, parseErr, eqCalls, eqArg, netCalls,
                           lastWrite>>
       ELSE /\ IF parseErr # "ErrBlankCommand" /\ ~HasPrefix(TrimSpace(line), W_auth)
                 THEN /\ history' = Append(history, [n |-> lineNo, text |-> line])
                      /\ historyFile' = SavedFile(history')
                 ELSE UNCHANGED histVars
            /\ EndLine
            /\ pc' = "select"
            /\ runResult' = runResult
  /\ UNCHANGED <<session, cfgVars, proc, lineNo, relayVars, sigVars,
                 eqVars, quitClosed, insertVars, ioVars>>

\* cli.go 272-276: the line is kept unless ParseCommand returned
\* ErrBlankCommand or the trimmed line starts with "auth".  influxql.Sanitize
\* rewrites only the password literal of a statement that sets one; no line
\* of LinePool holds one.
LoopHistory ==
  /\ Running /\ pc = "parsed" /\ mode = "interactive"
  /\ IF parseErr # "ErrBlankCommand" /\ ~HasPrefix(TrimSpace(line), W_auth)
       THEN /\ history' = Append(history, [n |-> lineNo, text |-> line])
            /\ historyFile' = SavedFile(history')
       ELSE UNCHANGED histVars
  /\ EndLine
  /\ pc' = "select"
  /\ UNCHANGED <<session, cfgVars, proc, runResult, lineNo, relayVars, sigVars,
                 eqVars, quitClosed, insertVars, ioVars>>

(***************************************************************************)
(* Run's -execute loop (cli.go 159-168) and stdin batch (cli.go 186-198).  *)
(***************************************************************************)
ScriptLine ==
  /\ Running /\ pc = "script"
  /\ lineNo < MaxLines
  /\ \E l \in LinePool : StartLine(l)
  /\ eqArg' = <<>>
  /\ pc' = "parse"
  /\ UNCHANGED <<session, cfgVars, proc, runResult, relayVars, sigVars, eqVars,
                 histVars, quitClosed, lastWrite, insertVars, ioVars>>

\* the lines are those of strings.Split(c.Execute, "\n") with c.Execute not
\* empty: at least one line, and more than an empty line alone
ScriptEnd ==
  /\ Running /\ pc = "script"
  /\ lineNo >= 1 /\ ~(lineNo = 1 /\ line = <<>>)
  /\ runResult' = "nil"
  /\ pc' = "returned"
  /\ UNCHANGED <<session, cfgVars, proc, lineVars, handler, parseErr, eqCalls,
                 eqArg, netCalls, relayVars, sigVars, eqVars, histVars,
                 quitClosed, lastWrite, insertVars, ioVars>>

ScriptAfterLine ==
  /\ Running /\ pc = "parsed" /\ mode = "execute"
  /\ IF parseErr # "nil"
       THEN /\ runResult' = parseErr /\ pc' = "returned"
            /\ UNCHANGED <<line, handler, parseErr, eqCalls, eqArg, netCalls,
                           lastWrite>>
       ELSE /\ runResult' = runResult /\ pc' = "script"
            /\ handler' = "none" /\ parseErr' = "none"
            /\ eqCalls' = 0 /\ eqArg' = <<>> /\ netCalls' = 0
            /\ lastWrite' = [Raw |-> <<>>, sent |-> FALSE, failed |-> FALSE]
            /\ line' = line
  /\ UNCHANGED <<session, cfgVars, proc, lineNo, relayVars, sigVars, eqVars,
                 histVars, quitClosed, insertVars, ioVars>>

\* the whole of stdin is one query
BatchRead ==
  /\ Running /\ pc = "batch"
  /\ \E l \in LinePool :
       /\ StartLine(l)
       /\ eqArg' = l
  /\ pc' = "eq"
  /\ UNCHANGED <<session, cfgVars, proc, runResult, relayVars, sigVars, eqVars,
                 histVars, quitClosed, lastWrite, insertVars, ioVars>>

BatchReturn ==
  /\ Running /\ pc = "parsed" /\ mode = "batch"
  /\ runResult' = parseErr
  /\ pc' = "returned"
  /\ UNCHANGED <<session, cfgVars, proc, lineVars, handler, parseErr, eqCalls,
                 eqArg, netCalls, relayVars, sigVars, eqVars, histVars,
                 quitClosed, lastWrite, insertVars, ioVars>>

(***************************************************************************)
(* ParseCommand's cases (cli.go 283-340).  Each returns to its caller with *)
(* pc = "parsed" and the returned error in parseErr.                       *)
(***************************************************************************)
Dispatch(h) == Running /\ pc = "parse" /\ Handler(line) = h

Returned(h, err) ==
  /\ handler' = h
  /\ parseErr' = err
  /\ pc' = "parsed"

\* no token: ErrBlankCommand
DoBlank ==
  /\ Dispatch("blank")
  /\ Returned("blank", "ErrBlankCommand")
  /\ UNCHANGED <<session, cfgVars, proc, runResult, lineVars, eqCalls, eqArg,
                 netCalls, relayVars, sigVars, eqVars, histVars, quitClosed,
                 lastWrite, insertVars, ioVars>>

\* exit, quit: close(c.Quit), which panics on a closed channel
DoExit ==
  /\ \E h \in {"exit", "quit"} :
       /\ Dispatch(h)
       /\ IF quitClosed
            THEN proc' = "panicked" /\ UNCHANGED <<handler, parseErr, pc, quitClosed>>
            ELSE proc' = proc /\ quitClosed' = TRUE /\ Returned(h, "nil")
  /\ UNCHANGED <<session, cfgVars, runResult, lineVars, eqCalls, eqArg, netCalls,
                 relayVars, sigVars, eqVars, histVars, lastWrite, insertVars, ioVars>>

\* gopher, help, settings: print only.  history prints the liner's history;
\* c.Line is nil unless mainLoop runs, and the call panics
DoPrint ==
  /\ \E h \in {"gopher", "help", "settings", "history"} :
       /\ Dispatch(h)
       /\ IF h = "history" /\ mode # "interactive"
            THEN proc' = "panicked" /\ UNCHANGED <<handler, parseErr, pc>>
            ELSE proc' = proc /\ Returned(h, "nil")
  /\ UNCHANGED <<session, cfgVars, runResult, lineVars, eqCalls, eqArg, netCalls,
                 relayVars, sigVars, eqVars, histVars, quitClosed, lastWrite,
                 insertVars, ioVars>>

\* SetAuth (cli.go 384-414): "auth <user> <password>" sets both; any other
\* number of fields prompts for them on c.Line
DoAuth ==
  /\ Dispatch("auth")
  /\ LET args == Fields(line)
     IN  IF Len(args) = 3
           THEN /\ session' = [session EXCEPT !.Username = args[2],
                                              !.Password = args[3],
                                              !.ClientAuth = <<args[2], args[3]>>]
                /\ proc' = proc
                /\ Returned("auth", "nil")
         ELSE IF mode # "interactive"
           THEN /\ proc' = "panicked"
                /\ UNCHANGED <<session, handler, parseErr, pc>>
         ELSE /\ proc' = proc
              /\ Returned("auth", "nil")
              /\ \/ session' = session
                 \/ \E u \in PromptedNames :
                      session' = [session EXCEPT !.Username = TrimSpace(u)]
                 \/ \E u \in PromptedNames, p \in PromptedNames :
                      session' = [session EXCEPT !.Username = TrimSpace(u),
                                                 !.Password = p,
                                                 !.ClientAuth = <<TrimSpace(u), p>>]
  /\ UNCHANGED <<cfgVars, runResult, lineVars, eqCalls, eqArg, netCalls,
                 relayVars, sigVars, eqVars, histVars, quitClosed, lastWrite,
                 insertVars, ioVars>>

\* chunked, pretty: toggle the flag
DoToggle ==
  /\ \E h \in {"chunked", "pretty"} :
       /\ Dispatch(h)
       /\ session' = (IF h = "chunked"
                        THEN [session EXCEPT !.Chunked = ~session.Chunked]
                        ELSE [session EXCEPT !.Pretty = ~session.Pretty])
       /\ Returned(h, "nil")
  /\ UNCHANGED <<cfgVars, proc, runResult, lineVars, eqCalls, eqArg, netCalls,
                 relayVars, sigVars, eqVars, histVars, quitClosed, lastWrite,
                 insertVars, ioVars>>

\* Insert (cli.go 748-767): a statement parseInsert rejects is reported and
\* nothing is written; otherwise the points go to Client.Write, whose error
\* is printed (failed).  Insert returns nil either way.
Insert(s) ==
  LET r == parseInsert(s, session)
  IN  IF r.ok
        THEN /\ \E failed \in BOOLEAN :
                  lastWrite' = [Raw |-> r.bp.Raw, sent |-> TRUE, failed |-> failed]
             /\ netCalls' = netCalls + 1
        ELSE UNCHANGED <<lastWrite, netCalls>>

DoInsert ==
  /\ Dispatch("insert")
  /\ Insert(line)
  /\ Returned("insert", "nil")
  /\ UNCHANGED <<session, cfgVars, proc, runResult, lineVars, eqCalls, eqArg,
                 relayVars, sigVars, eqVars, histVars, quitClosed, insertVars, ioVars>>

\* ParseCommand's default case with the lower-cased, trimmed line as the query
DoQuery_Lowered ==
  /\ Dispatch("query")
  /\ handler' = "query"
  /\ eqArg' = TrimSpace(ToLower(line))
  /\ pc' = "eq"
  /\ UNCHANGED <<session, cfgVars, proc, runResult, lineVars, parseErr, eqCalls,
                 netCalls, relayVars, sigVars, eqVars, histVars, quitClosed,
                 lastWrite, insertVars, ioVars>>

\* the default case: ExecuteQuery(cmd)
DoQuery ==
  /\ Dispatch("query")
  /\ handler' = "query"
  /\ eqArg' = line
  /\ pc' = "eq"
  /\ UNCHANGED <<session, cfgVars, proc, runResult, lineVars, parseErr, eqCalls,
                 netCalls, relayVars, sigVars, eqVars, histVars, quitClosed,
                 lastWrite, insertVars, ioVars>>

(***************************************************************************)
(* ExecuteQuery (cli.go 782-849) and its relay goroutine (cli.go 814-820). *)
(***************************************************************************)
\* the parse failure that goes on to send the query
EQParseFail_Sends ==
  /\ Running /\ pc = "eq"
  /\ session.RetentionPolicy # <<>>
  /\ eqCalls' = eqCalls + 1
  /\ netCalls' = netCalls + 1
  /\ parseErr' = "error"
  /\ pc' = "parsed"
  /\ UNCHANGED <<session, cfgVars, proc, runResult, lineVars, handler, eqArg,
                 relayVars, sigVars, eqVars, histVars, quitClosed,
                 lastWrite, insertVars, ioVars>>

\* cli.go 784-789: with a retention policy set the query is parsed first, and
\* a query the influxql parser rejects is returned as an error
EQParseFail ==
  /\ Running /\ pc = "eq"
  /\ session.RetentionPolicy # <<>>
  /\ eqCalls' = eqCalls + 1
  /\ parseErr' = "error"
  /\ pc' = "parsed"
  /\ UNCHANGED <<session, cfgVars, proc, runResult, lineVars, handler, eqArg,
                 netCalls, relayVars, sigVars, eqVars, histVars, quitClosed,
                 lastWrite, insertVars, ioVars>>

\* cli.go 807-826: the context, the done channel and the relay goroutine are
\* created unless signals are ignored, and QueryContext is called
EQBegin ==
  /\ Running /\ pc = "eq"
  /\ eqCalls' = eqCalls + 1
  /\ qn' = qn + 1
  /\ relay' = [relay EXCEPT ![qn + 1] = IF ignoreSignals THEN "none" ELSE "waiting"]
  /\ netCalls' = netCalls + 1
  /\ pc' = "inflight"
  /\ UNCHANGED <<session, cfgVars, proc, runResult, lineVars, handler, parseErr,
                 eqArg, done, ctxCancelled, got, sigVars, eqVars, histVars,
                 quitClosed, lastWrite, insertVars, ioVars>>

\* QueryContext returns a response without error: it is formatted
QueryOk ==
  /\ Running /\ pc = "inflight"
  /\ eqResult' = "nil"
  /\ pc' = "eqret"
  /\ UNCHANGED <<session, cfgVars, proc, runResult, lineVars, handler, parseErr,
                 eqCalls, eqArg, netCalls, relayVars, sigVars, qerr, eqReport,
                 histVars, quitClosed, lastWrite, insertVars, ioVars>>

\* QueryContext returns a response that carries an error (cli.go 840-847)
QueryResultError ==
  /\ Running /\ pc = "inflight"
  /\ eqReport' = "result error"
  /\ eqResult' = "error"
  /\ pc' = "eqret"
  /\ UNCHANGED <<session, cfgVars, proc, runResult, lineVars, handler, parseErr,
                 eqCalls, eqArg, netCalls, relayVars, sigVars, qerr, histVars,
                 quitClosed, lastWrite, insertVars, ioVars>>

\* QueryContext returns an error (cli.go 826-827)
QueryTransportError ==
  /\ Running /\ pc = "inflight"
  /\ qerr' \in TransportMessages
  /\ pc' = "classify"
  /\ UNCHANGED <<session, cfgVars, proc, runResult, lineVars, handler, parseErr,
                 eqCalls, eqArg, netCalls, relayVars, sigVars, eqReport, eqResult,
                 histVars, quitClosed, lastWrite, insertVars, ioVars>>

\* the classification with the context left out
ErrorReport_IgnoresContext(msg, cancelled) ==
  IF msg = "" THEN "no data received" ELSE msg

\* cli.go 828-835: the error printed for a transport error with message msg,
\* cancelled being ctx.Err() == context.Canceled; a context without deadline
\* has no other error
ErrorReport(msg, cancelled) ==
  IF msg = ""
    THEN IF cancelled THEN "aborted by user" ELSE "no data received"
    ELSE msg

\* cli.go 828-837
Classify ==
  /\ Running /\ pc = "classify"
  /\ eqReport' = ErrorReport(qerr, ctxCancelled[qn])
  /\ eqResult' = "error"
  /\ pc' = "eqret"
  /\ UNCHANGED <<session, cfgVars, proc, runResult, lineVars, handler, parseErr,
                 eqCalls, eqArg, netCalls, relayVars, sigVars, qerr, histVars,
                 quitClosed, lastWrite, insertVars, ioVars>>

\* ExecuteQuery returning without closing done
EQReturn_NoClose ==
  /\ Running /\ pc = "eqret"
  /\ parseErr' = eqResult
  /\ qerr' = "none" /\ eqReport' = "" /\ eqResult' = "none"
  /\ pc' = "parsed"
  /\ UNCHANGED <<session, cfgVars, proc, runResult, lineVars, handler, eqCalls,
                 eqArg, netCalls, relayVars, sigVars,
                 histVars, quitClosed, lastWrite, insertVars, ioVars>>

\* ExecuteQuery returns: the deferred close(done) runs (cli.go 810)
EQReturn ==
  /\ Running /\ pc = "eqret"
  /\ done' = [done EXCEPT ![qn] = ~ignoreSignals]
  /\ parseErr' = eqResult
  /\ qerr' = "none" /\ eqReport' = "" /\ eqResult' = "none"
  /\ pc' = "parsed"
  /\ UNCHANGED <<session, cfgVars, proc, runResult, lineVars, handler, eqCalls,
                 eqArg, netCalls, qn, relay, ctxCancelled, got, sigVars,
                 histVars, quitClosed, lastWrite, insertVars, ioVars>>

\* the relay of call q takes the case <-done of its select
RelayOnDone(q) ==
  /\ Running /\ pc # "returned"
  /\ relay[q] = "waiting"
  /\ done[q]
  /\ relay' = [relay EXCEPT ![q] = "exited"]
  /\ UNCHANGED <<session, cfgVars, proc, pc, runResult, lineVars, handler,
                 parseErr, eqCalls, eqArg, netCalls, qn, done, ctxCancelled, got,
                 sigVars, eqVars, histVars, quitClosed, lastWrite, insertVars, ioVars>>

\* the relay of call q takes the case <-c.osSignals: cancel()
RelayOnSignal(q) ==
  /\ Running /\ pc # "returned"
  /\ relay[q] = "waiting"
  /\ osSignals # <<>>
  /\ osSignals' = Tail(osSignals)
  /\ got' = [got EXCEPT ![q] = Head(osSignals)]
  /\ ctxCancelled' = [ctxCancelled EXCEPT ![q] = TRUE]
  /\ relay' = [relay EXCEPT ![q] = "cancelled"]
  /\ UNCHANGED <<session, cfgVars, proc, pc, runResult, lineVars, handler,
                 parseErr, eqCalls, eqArg, netCalls, qn, done, notified, sigCount,
                 eqVars, histVars, quitClosed, lastWrite, insertVars, ioVars>>

Next ==
  \/ Signal
  \/ LoopOnSignal \/ LoopOnQuit \/ LoopDefault
  \/ PromptLine \/ PromptEOF \/ PromptError \/ LoopHistory
  \/ ScriptLine \/ ScriptEnd \/ ScriptAfterLine
  \/ BatchRead \/ BatchReturn
  \/ DoBlank \/ DoExit \/ DoPrint \/ DoAuth \/ DoToggle \/ DoInsert \/ DoQuery
  \/ EQParseFail \/ EQBegin
  \/ QueryOk \/ QueryResultError \/ QueryTransportError \/ Classify \/ EQReturn
  \/ \E q \in LineIds : RelayOnDone(q)
  \/ \E q \in LineIds : RelayOnSignal(q)

Spec == Init /\ [][Next]_vars

(***************************************************************************)
(* Properties of the shell, checked under Spec.                            *)
(***************************************************************************)
\* C1: a signal delivered after one ExecuteQuery call has returned and before
\* the next one starts does not cancel the context of a later query, and no
\* later query is reported as aborted because of it.
C1_NoLeakIntoNextQuery ==
  /\ \A q \in LineIds :
       (got[q].at = "between" /\ got[q].q >= 1) => got[q].q >= q
  /\ ~(/\ pc = "eqret" /\ eqReport = "aborted by user"
       /\ got[qn].at = "between" /\ got[qn].q >= 1 /\ got[qn].q < qn)

\* the relay that receives a signal delivered in flight is the relay of the
\* query that was in flight
C2_NoStaleRelay == \A r \in LineIds : got[r].at = "inflight" => got[r].q = r

\* no signal ends the process while a query is in flight and signals are not
\* ignored
C2_NotLost == ~(proc = "killed" /\ pc = "inflight" /\ ~ignoreSignals)

\* C2: with signals not ignored, a signal delivered while a QueryContext call
\* is in flight is never consumed by the relay of another query, and is never
\* lost for want of a subscription feeding c.osSignals.
C2_InFlightSignalReachesItsQuery ==
  /\ C2_NoStaleRelay
  /\ C2_NotLost

\* C3: a transport error with an empty message is reported as "aborted by
\* user" exactly when the query's context is cancelled and as "no data
\* received" exactly when it is not; an error with a message is reported
\* unchanged; and "aborted by user" is reported only when signals are not
\* ignored and the relay of that query received a signal.
C3_ErrorClassification ==
  /\ [][(pc = "classify" /\ pc' = "eqret") =>
          IF qerr = ""
            THEN /\ (eqReport' = "aborted by user") <=> ctxCancelled[qn]
                 /\ (eqReport' = "no data received") <=> ~ctxCancelled[qn]
            ELSE eqReport' = qerr]_vars
  /\ [](eqReport = "aborted by user" => (~ignoreSignals /\ got[qn] # NoSignal))

\* an empty transport error of a cancelled query has been classified
C3_Witness ==
  /\ pc = "eqret" /\ qerr = "" /\ ctxCancelled[qn]
  /\ eqReport = "aborted by user"

\* C4: no line that ParseCommand dispatches to the auth handler is in the
\* liner's history or in the history file.
C4_AuthNeverInHistory ==
  /\ \A i \in DOMAIN history : Handler(history[i].text) # "auth"
  /\ \A i \in DOMAIN historyFile : Handler(historyFile[i].text) # "auth"

\* the number of lines for which ParseCommand has returned
ParsedLines ==
  IF pc \in {"parse", "eq", "inflight", "classify", "eqret"} THEN lineNo - 1 ELSE lineNo

\* C5: every history entry is a line whose ParseCommand call has returned, no
\* line is entered twice, no blank line is entered, and the entries are in the
\* order in which the lines were dispatched.
C5_HistoryAfterParse ==
  \A i \in DOMAIN history :
    /\ history[i].n \in 1..ParsedLines
    /\ Fields(history[i].text) # <<>>
    /\ \A j \in DOMAIN history : j < i => history[j].n < history[i].n

\* the second line read is in the history and the first, blank or an auth
\* line, is not
C5_Witness ==
  /\ mode = "interactive"
  /\ Len(history) = 1 /\ history[1].n = 2

\* C6: a blank line makes ParseCommand return ErrBlankCommand with no session
\* field changed and no network call, and in -execute mode it does not make
\* Run fail.
C6_BlankIsNoError ==
  /\ [][(pc = "parse" /\ Handler(line) = "blank" /\ pc' = "parsed") =>
          /\ parseErr' = "ErrBlankCommand"
          /\ session' = session
          /\ netCalls' = netCalls]_vars
  /\ [](~(mode = "execute" /\ pc = "returned" /\ runResult = "ErrBlankCommand"))

\* C7: when ParseCommand has returned, the handler that ran is the one named
\* by the line's first whitespace-delimited token compared without regard to
\* case, and a non-blank line whose first token names no meta-command has
\* reached ExecuteQuery exactly once, with the line's text as typed.
C7_Routing ==
  (pc = "parsed" /\ mode # "batch") =>
    LET toks == Fields(line)
    IN  IF toks = <<>> THEN handler = "blank" /\ eqCalls = 0
        ELSE IF \E m \in MetaCommands : EqualFold(toks[1], m.w)
          THEN /\ \E m \in MetaCommands : EqualFold(toks[1], m.w) /\ handler = m.h
               /\ eqCalls = 0
        ELSE handler = "query" /\ eqCalls = 1 /\ eqArg = line

\* a query typed with upper-case letters has gone through ExecuteQuery
C7_Witness ==
  /\ pc = "parsed" /\ mode # "batch"
  /\ handler = "query" /\ eqCalls = 1
  /\ eqArg = line /\ ToLower(line) # line

\* C15: when ExecuteQuery returns because the query text did not parse, which
\* happens only with a retention policy set, it returns an error, QueryContext
\* was not called and no context, done channel or relay was created.
C15_ParseFailureSendsNothing ==
  [][(pc = "eq" /\ pc' = "parsed") =>
       /\ session.RetentionPolicy # <<>>
       /\ parseErr' = "error"
       /\ netCalls' = netCalls
       /\ qn' = qn /\ relay' = relay /\ done' = done
       /\ ctxCancelled' = ctxCancelled
       /\ osSignals' = osSignals]_vars

\* ExecuteQuery has returned a parse error for a query line, with signals not
\* ignored, and nothing went to the server and no relay was started
C15_Witness ==
  /\ pc = "parsed" /\ handler = "query" /\ parseErr = "error"
  /\ session.RetentionPolicy # <<>> /\ ~ignoreSignals
  /\ eqCalls = 1 /\ netCalls = 0
  /\ qn = 0 /\ \A q \in LineIds : relay[q] = "none"

\* C21: in -execute mode a line whose action failed makes ParseCommand return
\* an error (a failed insert write, a query transport error, a query error
\* reported by the server), and after a line for which ParseCommand returned
\* an error no further line is dispatched: Run returns that error.
C21_FirstErrorEndsScript ==
  /\ []((/\ mode = "execute" /\ pc = "parsed" /\ handler = "insert"
          /\ netCalls = 1 /\ lastWrite.sent /\ lastWrite.failed)
           => parseErr # "nil")
  /\ [][(mode = "execute" /\ pc = "eqret" /\ pc' = "parsed" /\ eqResult = "error")
          => parseErr' = "error"]_vars
  /\ [][(mode = "execute" /\ pc = "parsed" /\ pc' # "parsed" /\ parseErr # "nil")
          => (pc' = "returned" /\ runResult' = parseErr)]_vars

\* C22 as stated: mainLoop returns only after an exit or quit line (an
\* end-of-input on the prompt is dispatched as "exit") or on an error of the
\* line reader; an error returned by ParseCommand does not make it return,
\* and nothing else does.
C22_ReturnsOnlyOnExitOrReaderError ==
  /\ [][(mode = "interactive" /\ pc # "returned" /\ pc' = "returned") =>
          \/ pc = "select" /\ quitClosed
          \/ pc = "prompt" /\ runResult' = "error"]_vars
  /\ [][(mode = "interactive" /\ pc = "parsed" /\ pc' # "parsed") =>
          pc' = "select"]_vars

\* C22: mainLoop returns only after an exit or quit line (an end-of-input on
\* the prompt is dispatched as "exit"), on an error of the line reader, or on
\* a SIGINT or SIGTERM taken from c.osSignals at the top of the loop, which
\* can happen only when signals are not ignored; an error returned by
\* ParseCommand does not make it return, and nothing else does.
C22_MainLoopReturns ==
  /\ [][(mode = "interactive" /\ pc # "returned" /\ pc' = "returned") =>
          \/ pc = "select" /\ quitClosed
          \/ pc = "prompt" /\ runResult' = "error"
          \/ pc = "select" /\ osSignals # <<>> /\ ~ignoreSignals]_vars
  /\ [][(mode = "interactive" /\ pc = "parsed" /\ pc' # "parsed") =>
          pc' = "select"]_vars

\* mainLoop has returned after a line was dispatched, with no exit or quit
\* line and no error of the line reader: a signal ended it
C22_Witness ==
  /\ mode = "interactive" /\ pc = "returned"
  /\ lineNo >= 1 /\ ~quitClosed /\ runResult = "nil"

\* C23: once an exit or quit line has been dispatched, no later line is handed
\* to ParseCommand, in mainLoop and in the -execute loop alike, and c.Quit is
\* never closed a second time.
C23_NoLineAfterExit ==
  /\ ~(quitClosed /\ pc = "parse")
  /\ ~(proc = "panicked" /\ quitClosed /\ Handler(line) \in {"exit", "quit"})

(***************************************************************************)
(* INSERT statements: the inputs of the classifier.                        *)
(***************************************************************************)
\* an identifier as written in a statement (text) and the name it denotes
Bare(s) == [text |-> s, name |-> s]
Quoted(s) == [text |-> <<"\"">> \o s \o <<"\"">>, name |-> s]

Idents ==
  { Bare(<<"d","1">>), Bare(<<"_","x">>), Bare(<<"R","p">>),
    Quoted(<<"m"," ","d">>) }

Points ==
  { <<"c"," ","v","=","1">>, <<"m",",","t","=","a"," ","v","=","2">>, <<"x">> }

InsertWords == { W_insert, <<"I","N","S","E","R","T">> }
IntoWords == { W_into, <<"I","N","T","O">>, <<"I","n","t","o">> }
SessionNames == { <<>>, <<"d">>, <<"r","1">> }

\* the values the shell's variables keep while the classifier runs alone
ShellIdle ==
  /\ mode = "none" /\ ignoreSignals = TRUE /\ hasHistoryFile = FALSE
  /\ proc = "running" /\ pc = "none" /\ runResult = "none"
  /\ line = <<>> /\ lineNo = 0 /\ handler = "none" /\ parseErr = "none"
  /\ eqCalls = 0 /\ eqArg = <<>> /\ netCalls = 0 /\ qn = 0
  /\ relay = [q \in LineIds |-> "none"]
  /\ done = [q \in LineIds |-> FALSE]
  /\ ctxCancelled = [q \in LineIds |-> FALSE]
  /\ got = [q \in LineIds |-> NoSignal]
  /\ osSignals = <<>> /\ notified = FALSE /\ sigCount = 0
  /\ qerr = "none" /\ eqReport = "" /\ eqResult = "none"
  /\ history = <<>> /\ historyFile = <<>>
  /\ quitClosed = FALSE
  /\ lastWrite = [Raw |-> <<>>, sent |-> FALSE, failed |-> FALSE]

\* "insert into db.rp p"
StmtDbRp(kw, into, db, rp, p) ==
  kw \o <<" ">> \o into \o <<" ">> \o db.text \o <<".">> \o rp.text \o <<" ">> \o p
\* "insert into X p"
StmtX(kw, into, x, p) == kw \o <<" ">> \o into \o <<" ">> \o x.text \o <<" ">> \o p
\* "insert p"
StmtPlain(kw, p) == kw \o <<" ">> \o p

NoIdent == Bare(<<>>)

\* statements by their first identifier (first), for the test on INSERT: a
\* misspelt keyword, a longer word, another keyword, no identifier at all (a
\* digit, a carriage return, the empty statement), and INSERT written after
\* white space or between double quotes
OtherStatements ==
  { [first |-> <<"i","n","s","r","t">>, text |-> <<"i","n","s","r","t"," ","x">>],
    [first |-> <<"i","n","s","e","r","t","s">>,
     text |-> <<"i","n","s","e","r","t","s"," ","x">>],
    [first |-> <<"I","N","T","O">>, text |-> <<"I","N","T","O"," ","d","1"," ","x">>],
    [first |-> <<>>, text |-> <<"1"," ","i","n","s","e","r","t"," ","x">>],
    [first |-> <<>>, text |-> <<"\r","i","n","s","e","r","t"," ","x">>],
    [first |-> <<>>, text |-> <<>>],
    [first |-> <<"I","n","s","e","r","t">>,
     text |-> <<" ","\t","I","n","s","e","r","t"," ","x">>],
    [first |-> W_insert,
     text |-> <<"\"","i","n","s","e","r","t","\""," ","x">>] }

InsertInputs ==
  { [form |-> "db.rp", first |-> kw, db |-> db, rp |-> rp, p |-> p,
     text |-> StmtDbRp(kw, into, db, rp, p)] :
       kw \in InsertWords, into \in IntoWords, db \in Idents, rp \in Idents, p \in Points }
  \cup
  { [form |-> "x", first |-> kw, db |-> x, rp |-> NoIdent, p |-> p,
     text |-> StmtX(kw, into, x, p)] :
       kw \in InsertWords, into \in IntoWords, x \in Idents, p \in Points }
  \cup
  { [form |-> "plain", first |-> kw, db |-> NoIdent, rp |-> NoIdent, p |-> p,
     text |-> StmtPlain(kw, p)] :
       kw \in InsertWords, p \in Points }
  \cup
  { [form |-> "other", first |-> o.first, db |-> NoIdent, rp |-> NoIdent,
     p |-> <<>>, text |-> o.text] : o \in OtherStatements }

InitInsert ==
  /\ \E db \in SessionNames, rp \in SessionNames :
       session = [NewSession EXCEPT !.Database = db, !.RetentionPolicy = rp]
  /\ input \in InsertInputs
  /\ stmt = input.text
  /\ ipc = "start"
  /\ parsed = [ok |-> FALSE, found |-> <<>>]
  /\ ShellIdle
  /\ IoIdle

\* one call of parseInsert on the statement
ParseInsertCall ==
  /\ ipc = "start"
  /\ parsed' = parseInsert(stmt, session)
  /\ ipc' = "done"
  /\ UNCHANGED <<session, stmt, input, shellVars, ioVars>>

\* one call of Insert on the statement (cli.go 748-767)
InsertCall ==
  /\ ipc = "start"
  /\ parsed' = parseInsert(stmt, session)
  /\ Insert(stmt)
  /\ ipc' = "inserted"
  /\ UNCHANGED <<session, stmt, input, cfgVars, proc, pc, runResult, lineVars,
                 handler, parseErr, eqCalls, eqArg, relayVars, sigVars, eqVars,
                 histVars, quitClosed, ioVars>>

NextInsert == ParseInsertCall \/ InsertCall

SpecInsert == InitInsert /\ [][NextInsert]_vars

(***************************************************************************)
(* Properties of the INSERT classifier, checked under SpecInsert.          *)
(***************************************************************************)
InsertDone(form) == ipc = "done" /\ input.form = form

C10_PlainPointVerbatim ==
  InsertDone("plain") =>
    /\ parsed.ok
    /\ parsed.bp.Database = session.Database
    /\ parsed.bp.RetentionPolicy = session.RetentionPolicy
    /\ parsed.bp.Raw = input.p

(***************************************************************************)
(* The identifier lexer on its own: every statement of at most MaxLexLen   *)
(* characters over LexAlphabet is handed to parseNextIdentifier.           *)
(***************************************************************************)
\* an identifier character, the double quote, the backslash and the space
LexAlphabet == { "a", "\"", "\\", " " }

LexInputs == UNION { [1..n -> LexAlphabet] : n \in 0..MaxLexLen }

InitLexer ==
  /\ session = NewSession
  /\ stmt \in LexInputs
  /\ input = [form |-> "lex"]
  /\ ipc = "start"
  /\ parsed = [ident |-> <<>>, rest |-> <<>>]
  /\ ShellIdle
  /\ IoIdle

\* one call of parseNextIdentifier on the statement
LexCall ==
  /\ ipc = "start"
  /\ parsed' = parseNextIdentifier(stmt)
  /\ ipc' = "done"
  /\ UNCHANGED <<session, stmt, input, shellVars, ioVars>>

NextLexer == LexCall

SpecLexer == InitLexer /\ [][NextLexer]_vars

(***************************************************************************)
(* Properties of the lexer, checked under SpecLexer.                       *)
(***************************************************************************)
\* the number of consecutive backslashes that end just before position j of s
RECURSIVE BackslashesBefore(_, _)
BackslashesBefore(s, j) ==
  IF j > 1 /\ s[j - 1] = "\\" THEN 1 + BackslashesBefore(s, j - 1) ELSE 0

\* the positions after the first of s that hold a double quote preceded by
\* zero or an even number of consecutive backslashes
ClosingQuotes(s) ==
  { j \in 2..Len(s) : s[j] = "\"" /\ BackslashesBefore(s, j) % 2 = 0 }

\* C12: for a statement that starts with a double quote and has a later quote
\* preceded by zero or an even number of backslashes, the identifier returned
\* is the text strictly between the opening quote and the first such quote,
\* and the remainder begins immediately after that quote.
C12_QuotedIdentifier ==
  (ipc = "done" /\ stmt # <<>> /\ stmt[1] = "\"" /\ ClosingQuotes(stmt) # {}) =>
    LET j == CHOOSE k \in ClosingQuotes(stmt) : \A m \in ClosingQuotes(stmt) : k <= m
    IN  /\ parsed.ident = SubSeq(stmt, 2, j - 1)
        /\ parsed.rest = SubSeq(stmt, j + 1, Len(stmt))

IsSuffix(r, s) == Len(r) <= Len(s) /\ SubSeq(s, Len(s) - Len(r) + 1, Len(s)) = r

\* s without its leading spaces, tabs and newlines
RECURSIVE SkipWhitespace(_)
SkipWhitespace(s) ==
  IF s # <<>> /\ isWhitespace(s[1]) THEN SkipWhitespace(Tail(s)) ELSE s

\* C13: parseNextIdentifier returns an identifier and a remainder for every
\* statement; the remainder is a suffix of the statement; and when the first
\* character after the leading white space starts no identifier (it is
\* neither a letter, an underscore nor a double quote, or there is none), the
\* identifier is empty and the remainder starts at that character.
C13_RemainderIsSuffix ==
  ipc = "done" =>
    /\ DOMAIN parsed = {"ident", "rest"}
    /\ IsSuffix(parsed.rest, stmt)
    /\ LET t == SkipWhitespace(stmt)
       IN  (t = <<>> \/ ~(isIdentFirstChar(t[1]) \/ t[1] = "\"")) =>
             (parsed.ident = <<>> /\ parsed.rest = t)

\* an identifier was read after leading white space and a proper, non-empty
\* suffix of the statement is left
C13_Witness ==
  /\ ipc = "done" /\ input.form = "lex"
  /\ stmt # <<>> /\ isWhitespace(stmt[1])
  /\ parsed.ident # <<>>
  /\ parsed.rest # <<>> /\ Len(parsed.rest) < Len(stmt) - 1
  /\ IsSuffix(parsed.rest, stmt)

\* C27: whenever parseNextIdentifier returns an identifier that is not empty,
\* the statement is the leading white space, then the identifier, bare or
\* between one pair of double quotes, then the remainder, and the remainder is
\* shorter than the statement; also for a statement with a quote that is not
\* closed and for one that starts with an empty quoted string.
C27_TokenThenRemainder ==
  (ipc = "done" /\ input.form = "lex" /\ parsed.ident # <<>>) =>
    LET t  == SkipWhitespace(stmt)
        ws == SubSeq(stmt, 1, Len(stmt) - Len(t))
    IN  /\ \/ stmt = ws \o parsed.ident \o parsed.rest
           \/ stmt = ws \o <<"\"">> \o parsed.ident \o <<"\"">> \o parsed.rest
        /\ Len(parsed.rest) < Len(stmt)

(***************************************************************************)
(* The scope rewriter of ExecuteQuery (cli.go 784-805).  A parsed query is *)
(* its sequence of statements; a statement is its kind and the Measurement *)
(* nodes that influxql.WalkFunc visits in its Sources, in order.           *)
(***************************************************************************)
\* the closure applied to a Measurement t (cli.go 793-800), overriding
\* whatever the measurement says
RewriteMeasurement_Overrides(t, c) ==
  [t EXCEPT !.Database = IF c.Database # <<>> THEN c.Database ELSE @,
            !.RetentionPolicy = IF c.RetentionPolicy # <<>> THEN c.RetentionPolicy ELSE @]

\* the closure applied to a Measurement t (cli.go 793-800)
RewriteMeasurement(t, c) ==
  [t EXCEPT !.Database = IF @ = <<>> /\ c.Database # <<>> THEN c.Database ELSE @,
            !.RetentionPolicy =
               IF @ = <<>> /\ c.RetentionPolicy # <<>> THEN c.RetentionPolicy ELSE @]

\* cli.go 791-802: only a *influxql.SelectStatement has its Sources walked
RewriteStatement(st, c) ==
  IF st.kind = "select"
    THEN [st EXCEPT !.Sources = [j \in DOMAIN @ |-> RewriteMeasurement(@[j], c)]]
    ELSE st

\* the measurements written in a query: with or without a database, with or
\* without a retention policy
Measurements ==
  { [Database |-> db, RetentionPolicy |-> rp, Name |-> <<"c","p","u">>] :
      db \in { <<>>, <<"x">> }, rp \in { <<>>, <<"y">> } }

\* a SELECT statement, or a statement of another kind that names measurements
\* (SHOW TAG KEYS FROM ..., DELETE FROM ...), with one or two sources
Statements ==
  { [kind |-> k, Sources |-> src] :
      k \in {"select", "other"},
      src \in [1..1 -> Measurements] \cup [1..2 -> Measurements] }

Queries == UNION { [1..n -> Statements] : n \in 1..MaxStatements }

InitRewrite ==
  /\ \E db \in { <<>>, <<"d">> }, rp \in { <<>>, <<"r","1">> } :
       session = [NewSession EXCEPT !.Database = db, !.RetentionPolicy = rp]
  /\ pq \in Queries
  /\ input = [form |-> "query", Statements |-> pq]
  /\ stmt = <<>>
  /\ ipc = "start"
  /\ parsed = [ok |-> FALSE, found |-> <<>>]
  /\ ri = 0 /\ previousHeaders = ZeroRow /\ tw = <<>> /\ out = <<>>
  /\ influxd = NewCommand
  /\ ShellIdle

\* cli.go 784-805 for a query that parses
RewriteSources ==
  /\ ipc = "start"
  /\ pq' = IF session.RetentionPolicy # <<>>
             THEN [i \in DOMAIN pq |-> RewriteStatement(pq[i], session)]
             ELSE pq
  /\ ipc' = "done"
  /\ UNCHANGED <<session, stmt, input, parsed, shellVars, ri, previousHeaders, tw, out, influxd>>

NextRewrite == RewriteSources

SpecRewrite == InitRewrite /\ [][NextRewrite]_vars

(***************************************************************************)
(* Properties of the scope rewriter, checked under SpecRewrite.            *)
(***************************************************************************)
\* the value of a field written as w after filling from the session's value v
Filled(w, v) == IF w = <<>> /\ v # <<>> THEN v ELSE w

\* C14: with a retention policy set, every measurement of every SELECT
\* statement has its empty database replaced by the session's database (when
\* that is not empty) and its empty retention policy by the session's; a
\* database or retention policy that was written is unchanged, and so is every
\* statement that is not a SELECT.
C14_FillOnly ==
  (ipc = "done" /\ input.form = "query" /\ session.RetentionPolicy # <<>>) =>
    /\ Len(pq) = Len(input.Statements)
    /\ \A i \in DOMAIN pq :
         LET before == input.Statements[i]
         IN  IF before.kind = "select"
               THEN /\ pq[i].kind = "select"
                    /\ Len(pq[i].Sources) = Len(before.Sources)
                    /\ \A j \in DOMAIN before.Sources :
                         LET t == before.Sources[j]
                             u == pq[i].Sources[j]
                         IN  /\ u.Name = t.Name
                             /\ u.Database = Filled(t.Database, session.Database)
                             /\ u.RetentionPolicy =
                                  Filled(t.RetentionPolicy, session.RetentionPolicy)
                             /\ t.Database # <<>> => u.Database = t.Database
                             /\ t.RetentionPolicy # <<>> =>
                                  u.RetentionPolicy = t.RetentionPolicy
               ELSE pq[i] = before

\* a query was rewritten in a session with a database and a retention policy:
\* a SELECT with one bare measurement, now fully qualified, and one fully
\* written measurement, unchanged, followed by another statement with a bare
\* measurement, unchanged
C14_Witness ==
  /\ ipc = "done" /\ input.form = "query"
  /\ session.Database # <<>> /\ session.RetentionPolicy # <<>>
  /\ Len(pq) = 2
  /\ input.Statements[1].kind = "select" /\ Len(pq[1].Sources) = 2
  /\ input.Statements[1].Sources[1].Database = <<>>
  /\ input.Statements[1].Sources[1].RetentionPolicy = <<>>
  /\ pq[1].Sources[1].Database = session.Database
  /\ pq[1].Sources[1].RetentionPolicy = session.RetentionPolicy
  /\ input.Statements[1].Sources[2].Database = <<"x">>
  /\ input.Statements[1].Sources[2].RetentionPolicy = <<"y">>
  /\ pq[1].Sources[2] = input.Statements[1].Sources[2]
  /\ pq[2].kind = "other" /\ pq[2].Sources[1].Database = <<>>
  /\ pq[2] = input.Statements[2]

(***************************************************************************)
(* The column renderer: writeColumns (cli.go 917-952) and formatResults    *)
(* (cli.go 955-1029) with c.Format = "column".  A line is recorded with    *)
(* its kind, the Result (res) and the series (ser, 0 for none) it belongs  *)
(* to, and the number of its tab-separated cells.                          *)
(***************************************************************************)
Line(kind, res, ser, cells) == [kind |-> kind, res |-> res, ser |-> ser, cells |-> cells]

\* the header of a series: its name, tags and column names
HeaderOf(row) == [Name |-> row.Name, Tags |-> row.Tags, Columns |-> row.Columns]

\* headersEqual comparing the names only
headersEqual_NameOnly(prev, current) == prev.Name = current.Name

\* headersEqual (cli.go 888-893)
headersEqual(prev, current) ==
  IF prev.Name # current.Name THEN FALSE
  ELSE prev.Tags = current.Tags /\ prev.Columns = current.Columns

\* strings.Join(cells, "\t") has as many cells as there are columns, and one
\* (the empty string) when there are none
Cells(row) == IF Len(row.Columns) = 0 THEN 1 ELSE Len(row.Columns)

\* the rows formatResults appends for the series number k of Result i
\* (cli.go 958-1027)
SeriesRows(row, i, k, suppressHeaders) ==
  (IF k > 1 /\ ~suppressHeaders THEN <<Line("empty", i, k, 1)>> ELSE <<>>)
  \o (IF ~suppressHeaders /\ row.Name # "" THEN <<Line("name", i, k, 1)>> ELSE <<>>)
  \o (IF ~suppressHeaders /\ Len(row.Tags) > 0 THEN <<Line("tags", i, k, 1)>> ELSE <<>>)
  \o (IF ~suppressHeaders THEN <<Line("columns", i, k, Cells(row))>> ELSE <<>>)
  \o (IF ~suppressHeaders THEN <<Line("dashes", i, k, Cells(row))>> ELSE <<>>)
  \o [v \in 1..row.Values |-> Line("values", i, k, Cells(row))]

\* formatResults, from series k on
RECURSIVE formatResults(_, _, _, _)
formatResults(result, i, k, suppressHeaders) ==
  IF k > Len(result.Series) THEN <<>>
  ELSE SeriesRows(result.Series[k], i, k, suppressHeaders)
         \o formatResults(result, i, k + 1, suppressHeaders)

\* the separator written whether or not the headers are suppressed
Separator_Always(i, suppressHeaders) ==
  IF i > 1 THEN <<Line("empty", i, 0, 1)>> ELSE <<>>

\* cli.go 941-943: the line return between results
Separator(i, suppressHeaders) ==
  IF ~suppressHeaders /\ i > 1 THEN <<Line("empty", i, 0, 1)>> ELSE <<>>

\* text/tabwriter: the lines written to the Writer are held until a line of a
\* single cell ends, which flushes everything held, that line included.  w is
\* the pair of the lines held and the lines that reached the stream.
RECURSIVE TabWrite(_, _)
TabWrite(w, lines) ==
  IF lines = <<>> THEN w
  ELSE LET l == Head(lines)
       IN  TabWrite(IF l.cells = 1
                      THEN [held |-> <<>>, stream |-> w.stream \o w.held \o <<l>>]
                      ELSE [held |-> Append(w.held, l), stream |-> w.stream],
                    Tail(lines))

\* the series of a Response: with a name and two columns, the same with a
\* tag, and without a name and with one column; each has one row of values
SeriesPool ==
  { [Name |-> "cpu", Tags |-> <<>>, Columns |-> <<"time", "value">>, Values |-> 1],
    [Name |-> "cpu", Tags |-> <<"host=a">>, Columns |-> <<"time", "value">>, Values |-> 1],
    [Name |-> "", Tags |-> <<>>, Columns |-> <<"count">>, Values |-> 1] }

\* a Result has no, one or two series and no or one message
ResultPool ==
  { [Series |-> sr, Messages |-> m] :
      sr \in {<<>>} \cup [1..1 -> SeriesPool] \cup [1..2 -> SeriesPool],
      m \in 0..1 }

Responses == UNION { [1..n -> ResultPool] : n \in 1..MaxResults }

InitColumns ==
  /\ session = NewSession
  /\ \E r \in Responses : input = [form |-> "response", Results |-> r]
  /\ stmt = <<>>
  /\ ipc = "start"
  /\ parsed = [ok |-> FALSE, found |-> <<>>]
  /\ pq = <<>>
  /\ ri = 0 /\ previousHeaders = ZeroRow
  /\ tw = <<>> /\ out = <<>>
  /\ influxd = NewCommand
  /\ ShellIdle

\* one iteration of the loop of writeColumns (cli.go 923-950): the messages
\* go to the stream, the separator and the rows go to the tabwriter
WriteResult ==
  /\ ipc = "start"
  /\ ri < Len(input.Results)
  /\ LET i == ri + 1
         result == input.Results[i]
         messages == [m \in 1..result.Messages |-> Line("message", i, 0, 1)]
         suppressHeaders ==
           Len(result.Series) > 0 /\ headersEqual(previousHeaders, result.Series[1])
         rows == Separator(i, suppressHeaders) \o formatResults(result, i, 1, suppressHeaders)
         w == TabWrite([held |-> tw, stream |-> out \o messages], rows)
     IN  /\ previousHeaders' = IF ~suppressHeaders /\ Len(result.Series) > 0
                                 THEN HeaderOf(result.Series[1])
                                 ELSE previousHeaders
         /\ tw' = w.held
         /\ out' = w.stream
         /\ ri' = i
  /\ UNCHANGED <<session, stmt, input, ipc, parsed, pq, shellVars, influxd>>

\* writer.Flush() (cli.go 951)
FlushColumns ==
  /\ ipc = "start"
  /\ input.form = "response"
  /\ ri = Len(input.Results)
  /\ out' = out \o tw
  /\ tw' = <<>>
  /\ ipc' = "done"
  /\ UNCHANGED <<session, stmt, input, parsed, pq, ri, previousHeaders, shellVars, influxd>>

NextColumns == WriteResult \/ FlushColumns

SpecColumns == InitColumns /\ [][NextColumns]_vars

(***************************************************************************)
(* Properties of the column renderer, checked under SpecColumns.           *)
(***************************************************************************)
Rendered == ipc = "done" /\ input.form = "response"

\* the header remembered after the first i Results: that of the first series
\* of the most recent Result whose headers were emitted (none: ZeroRow)
RECURSIVE Remembered(_)
Remembered(i) ==
  IF i = 0 THEN ZeroRow
  ELSE LET sr == input.Results[i].Series
       IN  IF sr # <<>> /\ HeaderOf(sr[1]) # Remembered(i - 1)
             THEN HeaderOf(sr[1])
             ELSE Remembered(i - 1)

\* Result i has a series and the header of its first series is the one
\* remembered
Repeats(i) ==
  /\ input.Results[i].Series # <<>>
  /\ HeaderOf(input.Results[i].Series[1]) = Remembered(i - 1)

\* the number of lines of a kind written for series k of Result i
Count(kind, i, k) ==
  Cardinality({ n \in DOMAIN out :
                  out[n].kind = kind /\ out[n].res = i /\ out[n].ser = k })

\* C16: the name, tags, column and dash lines of every series of a Result are
\* left out exactly when the Result has a series and the header of its first
\* series equals the header remembered from the most recent Result whose
\* headers were written; the value rows of every series are written either way.
C16_HeaderSuppression ==
  Rendered =>
    \A i \in DOMAIN input.Results :
      \A k \in DOMAIN input.Results[i].Series :
        LET row == input.Results[i].Series[k]
            shown == IF Repeats(i) THEN 0 ELSE 1
        IN  /\ Count("columns", i, k) = shown
            /\ Count("dashes", i, k) = shown
            /\ Count("name", i, k) = (IF row.Name # "" THEN shown ELSE 0)
            /\ Count("tags", i, k) = (IF Len(row.Tags) > 0 THEN shown ELSE 0)
            /\ Count("values", i, k) = row.Values

\* the second Result repeats the header of the first: the headers of the
\* first are written, those of the second are left out, its values are written
C16_Witness ==
  /\ Rendered
  /\ Len(input.Results) >= 2
  /\ Repeats(2) /\ ~Repeats(1)
  /\ Count("columns", 1, 1) = 1 /\ Count("columns", 2, 1) = 0
  /\ Count("values", 2, 1) = 1

\* C17: one empty line is written before a Result exactly when the Result is
\* not the first and its headers are not suppressed, and it precedes the rows
\* of that Result; no such line is written before the first Result or before
\* a Result whose headers are suppressed.
C17_BlankSeparator ==
  Rendered =>
    \A i \in DOMAIN input.Results :
      /\ Count("empty", i, 0) = (IF i > 1 /\ ~Repeats(i) THEN 1 ELSE 0)
      /\ \A n \in DOMAIN out, m \in DOMAIN out :
           (/\ out[n].kind = "empty" /\ out[n].res = i /\ out[n].ser = 0
            /\ out[m].res = i /\ out[m].ser > 0) => n < m

\* two Results with series, the second with a header of its own: one
\* separator, before the second
C17_Witness ==
  /\ Rendered
  /\ Len(input.Results) = 2
  /\ input.Results[1].Series # <<>> /\ input.Results[2].Series # <<>>
  /\ ~Repeats(2)
  /\ Count("empty", 1, 0) = 0 /\ Count("empty", 2, 0) = 1

\* C18: in the text that reached the stream, a message of a Result comes after
\* every row of the earlier Results and before every row of its own Result.
C18_MessagesBeforeOwnRows ==
  Rendered =>
    \A m \in DOMAIN out :
      out[m].kind = "message" =>
        \A n \in DOMAIN out :
          out[n].kind # "message" =>
            /\ out[n].res < out[m].res => n < m
            /\ out[n].res = out[m].res => m < n

\* the series a line of the output belongs to
SeriesOf(l) == input.Results[l.res].Series[l.ser]

\* C26: whenever the value rows of a series are written without header lines
\* of their own, the header written most recently before them is that of a
\* series with the same name, tags and columns; also for Results of more than
\* one series.
C26_SuppressedRowsUnderSameHeader ==
  Rendered =>
    \A n \in DOMAIN out :
      (out[n].kind = "values" /\ Count("columns", out[n].res, out[n].ser) = 0) =>
        \E h \in 1..(n - 1) :
          /\ out[h].kind = "columns"
          /\ \A j \in (h + 1)..(n - 1) : out[j].kind # "columns"
          /\ HeaderOf(SeriesOf(out[h])) = HeaderOf(SeriesOf(out[n]))

(***************************************************************************)
(* The handlers that set or clear session fields: SetFormat, SetPrecision, *)
(* clear and use, with Run's initial SetPrecision call (cli.go 151-152).   *)
(***************************************************************************)
W_format == <<"f","o","r","m","a","t">>
W_precision == <<"p","r","e","c","i","s","i","o","n">>

Formats == { <<"j","s","o","n">>, <<"c","s","v">>, <<"c","o","l","u","m","n">> }

Precisions == { <<"h">>, <<"m">>, <<"s">>, <<"m","s">>, <<"u">>, <<"n","s">> }

W_rfc3339 == <<"r","f","c","3","3","3","9">>

\* SetFormat (cli.go 620-632): the session after the call
SetFormat(cmd, c) ==
  LET v == TrimSpace(RemoveAll(ToLower(cmd), W_format))
  IN  IF v \in Formats THEN [c EXCEPT !.Format = v] ELSE c

\* SetPrecision (cli.go 600-617): the session after the call
SetPrecision(cmd, c) ==
  LET v == TrimSpace(RemoveAll(ToLower(cmd), W_precision))
  IN  IF v \in Precisions THEN [c EXCEPT !.Precision = v]
      ELSE IF v = W_rfc3339 THEN [c EXCEPT !.Precision = <<>>]
      ELSE c

\* the argument of clear (cli.go 417-418)
ClearArgument(cmd) ==
  LET args == Split(TrimSuffix(TrimSpace(cmd), <<";">>), " ")
  IN  ToLower(Join(Tail(args), <<" ">>))

\* clear that takes an unknown argument for the retention policy
clear_DefaultClears(cmd, c) ==
  LET v == ClearArgument(cmd)
  IN  IF v \in { <<"d","a","t","a","b","a","s","e">>, <<"d","b">> }
        THEN [c EXCEPT !.Database = <<>>]
      ELSE [c EXCEPT !.RetentionPolicy = <<>>]

\* clear (cli.go 416-442): the session after the call
clear(cmd, c) ==
  LET v == ClearArgument(cmd)
  IN  IF v \in { <<"d","a","t","a","b","a","s","e">>, <<"d","b">> }
        THEN [c EXCEPT !.Database = <<>>]
      ELSE IF v \in { <<"r","e","t","e","n","t","i","o","n"," ","p","o","l","i","c","y">>, <<"r","p">> }
        THEN [c EXCEPT !.RetentionPolicy = <<>>]
      ELSE c

\* parseDatabaseAndRetentionPolicy, for a scope written without quotes: a
\* database, or a database and a retention policy with a dot between them;
\* more than one dot does not parse
parseDatabaseAndRetentionPolicy(text) ==
  LET parts == Split(TrimSpace(text), ".")
  IN  IF Len(parts) = 1 THEN [ok |-> TRUE, db |-> parts[1], rp |-> <<>>]
      ELSE IF Len(parts) = 2 THEN [ok |-> TRUE, db |-> parts[1], rp |-> parts[2]]
      ELSE [ok |-> FALSE, db |-> <<>>, rp |-> <<>>]

\* the lines dispatched to these handlers and to Insert
SessionLines ==
  { <<"f","o","r","m","a","t"," ","c","s","v">>,
    <<"F","O","R","M","A","T"," ","x","m","l">>,
    <<"p","r","e","c","i","s","i","o","n"," ","m","s">>,
    <<"p","r","e","c","i","s","i","o","n"," ","R","F","C","3","3","3","9">>,
    <<"P","r","e","c","i","s","i","o","n"," ","x">>,
    <<"u","s","e">>,
    <<"u","s","e"," ","a",".","b",".","c">>,
    <<"u","s","e"," ","d","1",".","r","1">>,
    <<"u","s","e"," ","d","2",".","r","2">>,
    <<"c","o","n","n","e","c","t">>,
    <<"C","o","n","n","e","c","t"," ","H","2">>,
    <<"c","l","e","a","r"," ","d","b">>,
    <<"C","l","e","a","r"," ","R","e","t","e","n","t","i","o","n"," ","P","o","l","i","c","y">>,
    <<"c","l","e","a","r"," ","x">>,
    <<"c","l","e","a","r">>,
    <<"\r","i","n","s","e","r","t"," ","c"," ","v","=","1">>,
    <<"i","n","s","e","r","t"," ","c"," ","v","=","1">> }

\* the state after New (cli.go 72-79) and Connect, at Run's SetPrecision call,
\* with signals ignored
InitSession ==
  /\ mode \in {"interactive", "execute"}
  /\ ignoreSignals = TRUE
  /\ hasHistoryFile = FALSE
  /\ session = Connected(NewSession, HomeURL, "v1")
  /\ proc = "running"
  /\ pc = "setprecision"
  /\ runResult = "none"
  /\ line = <<>> /\ lineNo = 0 /\ handler = "none" /\ parseErr = "none"
  /\ eqCalls = 0 /\ eqArg = <<>> /\ netCalls = 0
  /\ qn = 0
  /\ relay = [q \in LineIds |-> "none"]
  /\ done = [q \in LineIds |-> FALSE]
  /\ ctxCancelled = [q \in LineIds |-> FALSE]
  /\ got = [q \in LineIds |-> NoSignal]
  /\ osSignals = <<>> /\ notified = FALSE /\ sigCount = 0
  /\ qerr = "none" /\ eqReport = "" /\ eqResult = "none"
  /\ history = <<>> /\ historyFile = <<>>
  /\ quitClosed = FALSE
  /\ lastWrite = [Raw |-> <<>>, sent |-> FALSE, failed |-> FALSE]
  /\ InsertIdle

\* cli.go 151-152: c.SetPrecision(c.ClientConfig.Precision)
RunSetPrecision ==
  /\ Running /\ pc = "setprecision"
  /\ session' = SetPrecision(session.Precision, session)
  /\ pc' = (IF mode = "interactive" THEN "select" ELSE "script")
  /\ UNCHANGED <<cfgVars, proc, runResult, lineVars, handler, parseErr, eqCalls,
                 eqArg, netCalls, relayVars, sigVars, eqVars, histVars,
                 quitClosed, lastWrite, insertVars, ioVars>>

\* a line is read at the prompt or taken from the script
SessionLine ==
  /\ Running /\ pc \in {"prompt", "script"}
  /\ lineNo < MaxLines
  /\ \E l \in SessionLines : StartLine(l)
  /\ eqArg' = <<>>
  /\ pc' = "parse"
  /\ UNCHANGED <<session, cfgVars, proc, runResult, relayVars, sigVars, eqVars,
                 histVars, quitClosed, lastWrite, insertVars, ioVars>>

DoFormat ==
  /\ Dispatch("format")
  /\ session' = SetFormat(line, session)
  /\ Returned("format", "nil")
  /\ UNCHANGED <<cfgVars, proc, runResult, lineVars, eqCalls, eqArg, netCalls,
                 relayVars, sigVars, eqVars, histVars, quitClosed, lastWrite,
                 insertVars, ioVars>>

DoPrecision ==
  /\ Dispatch("precision")
  /\ session' = SetPrecision(line, session)
  /\ Returned("precision", "nil")
  /\ UNCHANGED <<cfgVars, proc, runResult, lineVars, eqCalls, eqArg, netCalls,
                 relayVars, sigVars, eqVars, histVars, quitClosed, lastWrite,
                 insertVars, ioVars>>

DoClear ==
  /\ Dispatch("clear")
  /\ session' = clear(line, session)
  /\ Returned("clear", "nil")
  /\ UNCHANGED <<cfgVars, proc, runResult, lineVars, eqCalls, eqArg, netCalls,
                 relayVars, sigVars, eqVars, histVars, quitClosed, lastWrite,
                 insertVars, ioVars>>

\* use (cli.go 444-473): without an argument or with a scope that does not
\* parse nothing changes; otherwise the server is asked whether the database
\* exists and, when a retention policy is named, whether that exists
DoUse ==
  /\ Dispatch("use")
  /\ LET args == SplitAfterSpace2(TrimSuffix(TrimSpace(line), <<";">>))
         r == parseDatabaseAndRetentionPolicy(args[2])
     IN  IF Len(args) # 2 \/ ~r.ok
           THEN UNCHANGED <<session, netCalls>>
         ELSE \/ /\ session' = session
                 /\ netCalls' = netCalls + 1
              \/ /\ r.rp = <<>>
                 /\ session' = [session EXCEPT !.Database = r.db]
                 /\ netCalls' = netCalls + 1
              \/ /\ r.rp # <<>>
                 /\ \/ session' = [session EXCEPT !.Database = r.db]
                    \/ session' = [session EXCEPT !.Database = r.db,
                                                  !.RetentionPolicy = r.rp]
                 /\ netCalls' = netCalls + 2
  /\ Returned("use", "nil")
  /\ UNCHANGED <<cfgVars, proc, runResult, lineVars, eqCalls, eqArg, relayVars,
                 sigVars, eqVars, histVars, quitClosed, lastWrite, insertVars,
                 ioVars>>

W_connect == <<"c","o","n","n","e","c","t">>

\* Connect (cli.go 343-381).  The address is what is left of the lowered line
\* without the word connect; a blank one stands for c.URL.
\* client.ParseConnectionString, client.NewClient and Ping can each fail.
\* The new client is stored in c.Client before it is pinged; the server
\* version and c.URL are stored after a successful Ping.
DoConnect ==
  /\ Dispatch("connect")
  /\ LET addr == TrimSpace(RemoveAll(ToLower(line), W_connect))
         url  == IF addr = <<>> THEN session.URL ELSE addr
     IN  \/ /\ addr # <<>>
            /\ session' = session /\ netCalls' = netCalls
            /\ Returned("connect", "error")
         \/ /\ session' = session /\ netCalls' = netCalls
            /\ Returned("connect", "error")
         \/ /\ session' = [session EXCEPT !.Client = url]
            /\ netCalls' = netCalls + 1
            /\ Returned("connect", "error")
         \/ /\ \E v \in ServerVersions : session' = Connected(session, url, v)
            /\ netCalls' = netCalls + 1
            /\ Returned("connect", "nil")
  /\ UNCHANGED <<cfgVars, proc, runResult, lineVars, eqCalls, eqArg, relayVars,
                 sigVars, eqVars, histVars, quitClosed, lastWrite, insertVars,
                 ioVars>>

NextSession ==
  \/ RunSetPrecision
  \/ LoopDefault \/ SessionLine \/ LoopHistory
  \/ ScriptAfterLine \/ ScriptEnd
  \/ DoFormat \/ DoPrecision \/ DoClear \/ DoUse \/ DoInsert \/ DoConnect

SpecSession == InitSession /\ [][NextSession]_vars

(***************************************************************************)
(* Properties of the session handlers, checked under SpecSession.          *)
(***************************************************************************)
\* C19: the output format is one of json, csv and column, and the timestamp
\* precision is empty or one of h, m, s, ms, u and ns.
C19_FormatAndPrecision ==
  /\ session.Format \in Formats
  /\ session.Precision \in Precisions \cup { <<>> }

\* the number of dots of s
RECURSIVE Dots(_)
Dots(s) == IF s = <<>> THEN 0 ELSE (IF s[1] = "." THEN 1 ELSE 0) + Dots(Tail(s))

\* the line is one that its handler rejects: an insert whose first identifier
\* is not INSERT, a use without an argument or with a scope of more than one
\* dot, a clear whose argument is none of database, db, retention policy, rp
Rejected(l) ==
  LET words == Fields(ToLower(l))
  IN  \/ /\ Handler(l) = "insert"
         /\ ~EqualFold(parseNextIdentifier(l).ident, W_insert)
      \/ /\ Handler(l) = "use"
         /\ (Len(words) = 1 \/ Dots(Join(Tail(words), <<" ">>)) > 1)
      \/ /\ Handler(l) = "clear"
         /\ Join(Tail(words), <<" ">>) \notin
              { <<"d","a","t","a","b","a","s","e">>, <<"d","b">>, <<"r","e","t","e","n","t","i","o","n"," ","p","o","l","i","c","y">>, <<"r","p">> }

\* C20: the handler of a rejected line changes no session field and returns
\* no error, and the loop then goes on to read the next line.
C20_RejectedLineChangesNothing ==
  /\ [][(pc = "parse" /\ Rejected(line) /\ pc' = "parsed") =>
          (session' = session /\ parseErr' = "nil")]_vars
  /\ [][(pc = "parsed" /\ Rejected(line)) => pc' \in {"select", "script"}]_vars

\* with a database and a retention policy in use, a second line was rejected
\* after the loop went on from the first
C20_Witness ==
  /\ pc = "parsed" /\ lineNo = 2 /\ Rejected(line)
  /\ handler \in {"use", "clear", "insert"} /\ parseErr = "nil"
  /\ session.Database # <<>> /\ session.RetentionPolicy # <<>>

(***************************************************************************)
(* The relay goroutines of ExecuteQuery (cli.go 807-821) and of            *)
(* ExecuteFluxQuery (cli.go 1177-1200) under a fair scheduler.  With       *)
(* c.Type = QueryLanguageFlux Run hands the whole of -execute or of stdin  *)
(* to ExecuteFluxQuery and returns what it returns (cli.go 155-157,        *)
(* 192-194): mode "flux".                                                  *)
(***************************************************************************)
W_select1 == <<"S","E","L","E","C","T"," ","1">>

\* the lines read: a query, and exit
RelayLines == { W_select1, W_exit }

InitRelay ==
  /\ mode \in {"interactive", "execute", "batch", "flux"}
  /\ ignoreSignals \in BOOLEAN
  /\ hasHistoryFile = FALSE
  /\ \E rp \in {<<>>, <<"r","1">>} :
       session = [Connected(NewSession, HomeURL, "v1") EXCEPT !.RetentionPolicy = rp]
  /\ proc = "running"
  /\ pc = (IF mode = "interactive" THEN "select"
           ELSE IF mode = "execute" THEN "script"
           ELSE IF mode = "batch" THEN "batch" ELSE "flux")
  /\ runResult = "none"
  /\ line = <<>> /\ lineNo = 0 /\ handler = "none" /\ parseErr = "none"
  /\ eqCalls = 0 /\ eqArg = <<>> /\ netCalls = 0
  /\ qn = 0
  /\ relay = [q \in LineIds |-> "none"]
  /\ done = [q \in LineIds |-> FALSE]
  /\ ctxCancelled = [q \in LineIds |-> FALSE]
  /\ got = [q \in LineIds |-> NoSignal]
  /\ osSignals = <<>>
  /\ notified = (mode = "interactive" /\ ~ignoreSignals)
  /\ sigCount = 0
  /\ qerr = "none" /\ eqReport = "" /\ eqResult = "none"
  /\ history = <<>> /\ historyFile = <<>>
  /\ quitClosed = FALSE
  /\ lastWrite = [Raw |-> <<>>, sent |-> FALSE, failed |-> FALSE]
  /\ InsertIdle

\* a line is read at the prompt or taken from the script
RelayLine ==
  /\ Running /\ pc \in {"prompt", "script"}
  /\ lineNo < MaxLines
  /\ \E l \in RelayLines : StartLine(l)
  /\ eqArg' = <<>>
  /\ pc' = "parse"
  /\ UNCHANGED <<session, cfgVars, proc, runResult, relayVars, sigVars, eqVars,
                 histVars, quitClosed, lastWrite, insertVars, ioVars>>

\* ExecuteFluxQuery (cli.go 1178-1192): the context, the done channel and the
\* relay goroutine are created unless signals are ignored
FluxBegin ==
  /\ Running /\ pc = "flux"
  /\ StartLine(W_select1)
  /\ eqArg' = W_select1
  /\ qn' = qn + 1
  /\ relay' = [relay EXCEPT ![qn + 1] = IF ignoreSignals THEN "none" ELSE "waiting"]
  /\ pc' = "fluxrepl"
  /\ UNCHANGED <<session, cfgVars, proc, runResult, done, ctxCancelled, got,
                 sigVars, eqVars, histVars, quitClosed, lastWrite, insertVars,
                 ioVars>>

\* getFluxREPL returns an error (cli.go 1194-1197)
FluxReplError ==
  /\ Running /\ pc = "fluxrepl"
  /\ eqResult' = "error"
  /\ pc' = "fluxret"
  /\ UNCHANGED <<session, cfgVars, proc, runResult, lineVars, handler, parseErr,
                 eqCalls, eqArg, netCalls, relayVars, sigVars, qerr, eqReport,
                 histVars, quitClosed, lastWrite, insertVars, ioVars>>

\* repl.Input(query) runs the query and returns its error, if any
\* (cli.go 1199)
FluxInput ==
  /\ Running /\ pc = "fluxrepl"
  /\ eqResult' \in {"nil", "error"}
  /\ netCalls' = netCalls + 1
  /\ pc' = "fluxret"
  /\ UNCHANGED <<session, cfgVars, proc, runResult, lineVars, handler, parseErr,
                 eqCalls, eqArg, relayVars, sigVars, qerr, eqReport,
                 histVars, quitClosed, lastWrite, insertVars, ioVars>>

\* ExecuteFluxQuery returns: the deferred close(done) runs (cli.go 1181)
FluxReturn ==
  /\ Running /\ pc = "fluxret"
  /\ done' = [done EXCEPT ![qn] = ~ignoreSignals]
  /\ parseErr' = eqResult
  /\ eqResult' = "none"
  /\ pc' = "parsed"
  /\ UNCHANGED <<session, cfgVars, proc, runResult, lineVars, handler, eqCalls,
                 eqArg, netCalls, qn, relay, ctxCancelled, got, sigVars, qerr,
                 eqReport, histVars, quitClosed, lastWrite, insertVars, ioVars>>

\* Run returns what ExecuteFluxQuery returned (cli.go 157, 194)
FluxRunReturn ==
  /\ Running /\ pc = "parsed" /\ mode = "flux"
  /\ runResult' = parseErr
  /\ pc' = "returned"
  /\ UNCHANGED <<session, cfgVars, proc, lineVars, handler, parseErr, eqCalls,
                 eqArg, netCalls, relayVars, sigVars, eqVars, histVars,
                 quitClosed, lastWrite, insertVars, ioVars>>

NextRelay ==
  \/ Signal
  \/ LoopOnSignal \/ LoopOnQuit \/ LoopDefault
  \/ RelayLine \/ PromptEOF \/ PromptError \/ LoopHistory
  \/ ScriptEnd \/ ScriptAfterLine
  \/ BatchRead \/ BatchReturn
  \/ DoExit \/ DoQuery
  \/ EQParseFail \/ EQBegin
  \/ QueryOk \/ QueryResultError \/ QueryTransportError \/ Classify \/ EQReturn
  \/ FluxBegin \/ FluxReplError \/ FluxInput \/ FluxReturn \/ FluxRunReturn
  \/ \E q \in LineIds : RelayOnDone(q)
  \/ \E q \in LineIds : RelayOnSignal(q)

\* a goroutine that can take a step is scheduled in the end: a relay whose
\* done channel is closed takes a case of its select, as long as the process
\* runs
SpecRelay ==
  /\ InitRelay /\ [][NextRelay]_vars
  /\ \A q \in LineIds : WF_vars(RelayOnDone(q))

\* the call number q of ExecuteQuery or ExecuteFluxQuery that started a relay
\* has returned
CallReturned(q) ==
  /\ relay[q] # "none"
  /\ q < qn \/ (q = qn /\ pc \notin {"inflight", "classify", "eqret", "fluxrepl", "fluxret"})

\* C28: once the call of ExecuteQuery or ExecuteFluxQuery that started a relay
\* has returned, whatever it returned, the relay terminates in the end, with
\* or without a signal, unless the process ends first (Run returns, or the
\* process is killed or panics).
C28_RelayTerminates ==
  \A q \in LineIds :
    (CallReturned(q) /\ relay[q] = "waiting")
      ~> (relay[q] \in {"exited", "cancelled"} \/ pc = "returned" \/ ~Running)

\* the relay of a call that returned an error has ended on its done channel,
\* no signal was delivered, and the process still runs
C28_Witness ==
  /\ Running /\ pc # "returned"
  /\ sigCount = 0
  /\ \E q \in LineIds :
       /\ CallReturned(q) /\ relay[q] = "exited" /\ done[q]
       /\ q = qn /\ pc = "parsed" /\ parseErr = "error"

(***************************************************************************)
(* The run command of influxd (part_001): Run, then Close, with the        *)
(* goroutine that watches the configuration file and the goroutine that    *)
(* logs the server's errors.                                               *)
(***************************************************************************)
\* what GetConfigPath returns (part_001 330-349): blank when no file is named
\* or found, or when the null device is named
ConfigPaths == { "", "influxdb.conf" }

\* the -pidfile option (part_001 204)
PIDPaths == { "", "influxd.pid" }

\* the process runs: Run has not failed (its caller then exits) and no
\* goroutine has panicked
Alive == influxd.pc \notin {"failed", "panicked"}

\* Run returns an error
RunFails == influxd' = [influxd EXCEPT !.pc = "failed", !.runResult = "error"]

DaemonFrame ==
  UNCHANGED <<session, shellVars, insertVars, pq, ri, previousHeaders, tw, out>>

\* ParseFlags and options.GetConfigPath() (part_001 76-81)
ParseFlags ==
  /\ influxd.pc = "flags"
  /\ \/ RunFails
     \/ \E path \in ConfigPaths, pid \in PIDPaths :
          influxd' = [influxd EXCEPT !.configPath = path, !.pidPath = pid, !.pc = "config"]
  /\ DaemonFrame

\* ParseConfig (part_001 239-295): a blank path gives the demo configuration
\* and no watcher; otherwise the file is read, the watcher is created and
\* stored, its goroutine is started and the file is added to the watcher
ParseConfig ==
  /\ influxd.pc = "config"
  /\ IF influxd.configPath = ""
       THEN \/ influxd' = [influxd EXCEPT !.pc = "validate"]
            \/ RunFails
       ELSE \/ RunFails
            \/ influxd' = [influxd EXCEPT !.watcher = "open", !.watching = "running",
                                   !.pc = "failed", !.runResult = "error"]
            \/ influxd' = [influxd EXCEPT !.watcher = "open", !.watching = "running",
                                   !.pc = "validate"]
  /\ DaemonFrame

\* ApplyEnvOverrides, Validate and NewLogger (part_001 86-99)
ValidateConfig ==
  /\ influxd.pc = "validate"
  /\ \/ RunFails
     \/ influxd' = [influxd EXCEPT !.pc = "server"]
  /\ DaemonFrame

\* NewServer, Open and cmd.Server = s (part_001 139-149)
OpenServer ==
  /\ influxd.pc = "server"
  /\ \/ RunFails
     \/ influxd' = [influxd EXCEPT !.Server = "open", !.pc = "dump"]
  /\ DaemonFrame

\* config.DumpToml (part_001 151-153)
DumpToml ==
  /\ influxd.pc = "dump"
  /\ \/ RunFails
     \/ influxd' = [influxd EXCEPT !.pc = "pid"]
  /\ DaemonFrame

\* writePIDFile and cmd.pidfile = options.PIDFile (part_001 156-159,
\* 217-235): nothing is written for a blank path
writePIDFile ==
  /\ influxd.pc = "pid"
  /\ IF influxd.pidPath = ""
       THEN influxd' = [influxd EXCEPT !.pc = "monitor"]
       ELSE \/ RunFails
            \/ influxd' = [influxd EXCEPT !.pidFileOnDisk = TRUE, !.pidfile = influxd.pidPath,
                                   !.pc = "monitor"]
  /\ DaemonFrame

\* go cmd.monitorServerErrors() and return nil (part_001 162-164)
RunReturns ==
  /\ influxd.pc = "monitor"
  /\ influxd' = [influxd EXCEPT !.monitor = "running", !.runResult = "nil", !.pc = "ran"]
  /\ DaemonFrame

\* Close, called after Run returned nil: close(cmd.closing) (part_001 171)
CloseClosing ==
  /\ influxd.pc = "ran"
  /\ influxd' = [influxd EXCEPT !.closing = TRUE, !.pc = "closewatcher"]
  /\ DaemonFrame

\* cmd.watcher.Close() (part_001 172): the method of fsnotify reads the
\* fields of its receiver, and cmd.watcher is nil unless ParseConfig created
\* a watcher: a nil pointer dereference, and Close panics
CloseWatcher ==
  /\ influxd.pc = "closewatcher"
  /\ IF influxd.watcher = "nil"
       THEN influxd' = [influxd EXCEPT !.closeResult = "panic", !.pc = "removepid"]
       ELSE influxd' = [influxd EXCEPT !.watcher = "closed", !.pc = "closeserver"]
  /\ DaemonFrame

\* cmd.Server.Close() and its result (part_001 173-176)
CloseServer ==
  /\ influxd.pc = "closeserver"
  /\ \E r \in {"nil", "error"} :
       influxd' = [influxd EXCEPT !.Server = IF influxd.Server = "nil" THEN "nil" ELSE "closed",
                          !.closeResult = IF influxd.Server = "nil" THEN "nil" ELSE r,
                          !.pc = "removepid"]
  /\ DaemonFrame

\* the deferred removePIDFile (part_001 170, 191-197); os.Remove is taken to
\* succeed
removePIDFile ==
  /\ influxd.pc = "removepid"
  /\ influxd' = [influxd EXCEPT !.pidFileOnDisk = IF influxd.pidfile # "" THEN FALSE ELSE @,
                        !.pc = "closeclosed"]
  /\ DaemonFrame

\* the deferred close(cmd.Closed) (part_001 169); a panic then goes on up
\* the stack
CloseClosed ==
  /\ influxd.pc = "closeclosed"
  /\ influxd' = [influxd EXCEPT !.Closed = TRUE,
                        !.pc = IF influxd.closeResult = "panic" THEN "panicked" ELSE "closed"]
  /\ DaemonFrame

\* the watcher's goroutine receives a file event (part_001 263-279): it goes
\* on without reloading, or it calls cmd.Server.ReloadConfig; what that does
\* on a Server that is still nil is not in the sources, and it may panic
WatcherEvent ==
  /\ Alive
  /\ influxd.watching = "running" /\ influxd.watcher = "open"
  /\ influxd.events < MaxEvents
  /\ \/ influxd' = [influxd EXCEPT !.events = @ + 1]
     \/ influxd' = [influxd EXCEPT !.events = @ + 1, !.reloads = @ + 1]
     \/ /\ influxd.Server = "nil"
        /\ influxd' = [influxd EXCEPT !.events = @ + 1, !.pc = "panicked"]
  /\ DaemonFrame

\* the watcher's goroutine returns: cmd.closing is closed, or the channels of
\* a closed watcher are closed (part_001 264-266, 281-286)
WatcherExit ==
  /\ Alive
  /\ influxd.watching = "running"
  /\ influxd.closing \/ influxd.watcher = "closed"
  /\ influxd' = [influxd EXCEPT !.watching = "exited"]
  /\ DaemonFrame

\* monitorServerErrors returns when cmd.closing is closed (part_001 185-186)
MonitorExit ==
  /\ Alive
  /\ influxd.monitor = "running"
  /\ influxd.closing
  /\ influxd' = [influxd EXCEPT !.monitor = "exited"]
  /\ DaemonFrame

InitDaemon ==
  /\ session = NewSession
  /\ ShellIdle
  /\ InsertIdle

NextDaemon ==
  \/ ParseFlags \/ ParseConfig \/ ValidateConfig \/ OpenServer \/ DumpToml
  \/ writePIDFile \/ RunReturns
  \/ CloseClosing \/ CloseWatcher \/ CloseServer \/ removePIDFile \/ CloseClosed
  \/ WatcherEvent \/ WatcherExit \/ MonitorExit

SpecDaemon == InitDaemon /\ [][NextDaemon]_vars

\* C29: when a Close called after a successful Run has ended, cmd.closing is
\* closed, the server is closed, the PID file is gone and cmd.Closed is
\* closed, with a watcher and without one.
C29_CloseReleasesEverything ==
  (influxd.pc \in {"closed", "panicked"} /\ influxd.runResult = "nil" /\ influxd.closing) =>
    /\ influxd.Server = "closed"
    /\ ~influxd.pidFileOnDisk
    /\ influxd.Closed

\* the scope named by a use line (cli.go 445-456)
UseScope(l) ==
  LET args == SplitAfterSpace2(TrimSuffix(TrimSpace(l), <<";">>))
  IN  IF Len(args) # 2 THEN [ok |-> FALSE, db |-> <<>>, rp |-> <<>>]
      ELSE parseDatabaseAndRetentionPolicy(args[2])

\* C24: a use line that names a database and a retention policy either makes
\* both current or leaves both as they were; and no use line changes the
\* current database while it leaves in place a retention policy that an
\* earlier use line selected for another database.
C24_UseIsAtomic ==
  /\ [][(/\ pc = "parse" /\ Handler(line) = "use" /\ pc' = "parsed"
          /\ UseScope(line).ok /\ UseScope(line).rp # <<>>) =>
          \/ /\ session'.Database = UseScope(line).db
             /\ session'.RetentionPolicy = UseScope(line).rp
          \/ /\ session'.Database = session.Database
             /\ session'.RetentionPolicy = session.RetentionPolicy]_vars
  /\ [][(/\ pc = "parse" /\ Handler(line) = "use" /\ pc' = "parsed"
          /\ session'.Database # session.Database
          /\ session'.RetentionPolicy # <<>>) =>
          session'.RetentionPolicy = UseScope(line).rp]_vars

\* C25: a connect line for which Connect returns an error leaves the URL, the
\* server version and the client of the session as they were.
C25_FailedConnectKeepsConnection ==
  [][(/\ pc = "parse" /\ Handler(line) = "connect" /\ pc' = "parsed"
      /\ parseErr' # "nil") =>
       /\ session'.URL = session.URL
       /\ session'.ServerVersion = session.ServerVersion
       /\ session'.Client = session.Client]_vars

\* C11: parseInsert fails exactly when the first identifier of the statement
\* is not "insert" compared without regard to case; the error then names the
\* identifier found and INSERT as the word expected; and a call of Insert on
\* such a statement issues no write and changes no session field.
C11_RejectsNonInsert ==
  /\ [](ipc \in {"done", "inserted"} =>
          /\ parsed.ok <=> EqualFold(input.first, W_insert)
          /\ ~parsed.ok => (parsed.found = input.first /\ parsed.expected = "INSERT"))
  /\ [][(ipc' = "inserted" /\ ~parsed'.ok) =>
          /\ netCalls' = netCalls
          /\ lastWrite' = lastWrite
          /\ session' = session]_vars

\* Insert was called on a statement whose first identifier is a misspelt
\* INSERT, and nothing was written
C11_Witness ==
  /\ ipc = "inserted" /\ input.form = "other"
  /\ input.first # <<>> /\ ~EqualFold(input.first, W_insert)
  /\ ~parsed.ok /\ parsed.found = input.first
  /\ netCalls = 0 /\ ~lastWrite.sent

====
